---- MODULE Spec2Model ----
(***************************************************************************)
(* Model of the run orchestration pipeline of reneuhlig/kiproject:         *)
(* DetectionProcessor.process_images driving a pluggable detector, the     *)
(* DatabaseHandler result store and the SystemMonitor.                     *)
(*                                                                         *)
(* One run of process_images is modelled statement group by statement      *)
(* group (variable pc), because a KeyboardInterrupt is delivered           *)
(* asynchronously to the main thread and may arrive between any two of     *)
(* them.  That is specification Spec.                                      *)
(*                                                                         *)
(* SpecMonitor is the SystemMonitor by itself: the thread calling its      *)
(* methods and the sampler threads it starts, interleaved.                 *)
(* SpecDetectors is the detect method of each detector implementation.     *)
(*                                                                         *)
(* The remaining specifications exercise methods by themselves, on inputs  *)
(* drawn from bounded sets: SpecCoercers the coercers of the two sinks,    *)
(* SpecInsert DatabaseHandler.insert_result, SpecCsv the CSVExporter,      *)
(* SpecNormalize DataLoader._normalize_classification and SpecLoader       *)
(* DataLoader.get_classified_images.                                       *)
(*                                                                         *)
(* SpecBatch is the main loop of the batch scripts (zold_run_folder_gemma3 *)
(* and run_folder_ulralytics), and SpecBatchFair the same loop taking a    *)
(* step whenever it can.                                                   *)
(***************************************************************************)
EXTENDS Integers, Sequences, FiniteSets, TLC

(* ------------------------------------------------------------------ *)
(* Bounds of the model                                                  *)
(* ------------------------------------------------------------------ *)

\* largest number of images discovery returns
MaxImages == 3

\* largest number of start_monitoring calls on one SystemMonitor
MaxStarts == 2

\* number of samples after which a sampler does not enter its loop again
MaxSamples == 2

\* largest number of detect calls made on one detector
MaxDetections == 2

\* largest number of persons (or faces) one image shows
MaxPersons == 1

(* ------------------------------------------------------------------ *)
(* Inputs                                                               *)
(* ------------------------------------------------------------------ *)

\* What detector.detect(image_path) can do (src/DetectionProcessor.py:106).
\* The detector is pluggable, so each kind stands for one class of behaviour
\* that takes a different path through the loop body:
\*   ok              a dict with numeric confidences and no 'error'
\*   reported_error  a dict with 'error' populated (e.g. _create_error_result)
\*   avg_none        a dict whose 'avg_confidence' is present and None
\*   bad_confidences a dict whose 'confidences' holds a non-numeric entry
\*   unserializable  a dict holding a value json.dumps rejects
\*   raise           detect raises an Exception
OutcomeKinds ==
    {"ok", "reported_error", "avg_none", "bad_confidences", "unserializable", "raise"}

\* the values of the max_images parameter: None is << >>, the integer n is <<n>>
MaxImagesParam == {<< >>} \cup {<<n>> : n \in 0 .. MaxImages}

VARIABLES
    pc,                    \* position of the main thread in process_images
    max_images,            \* parameter of process_images
    images,                \* local: the image list (image ids in list order)
    i,                     \* local: enumerate index of the current image
    result,                \* local: what detect returned for the current image
    err,                   \* local: str(e) of the exception caught at line 136
    infoRaises,            \* whether get_image_info raises for the current image
    processing_times,      \* local list (the image each entry was measured for)
    successful_detections, \* local counter
    failed_detections,     \* local counter
    status,                \* local: status handed to update_run_completion
    ai_runs,               \* table ai_runs (at most the row of this run)
    detection_results,     \* table detection_results (rows of this run)
    monitoring,            \* SystemMonitor.monitoring
    detectCalls,           \* history: images detect was invoked on
    outcomes,              \* history: how each detect call ended
    insertCalls,           \* history: every insert_result call
    runWrites,             \* history: INSERT/UPDATE statements issued on the run row
    completionCalls,       \* history: arguments of update_run_completion calls
    startCalls,            \* history: start_monitoring calls
    stopCalls,             \* history: stop_monitoring calls
    storeFailed,           \* history: the database rejected a result write
    escaped,               \* history: where an Exception left the per-image boundary
    cancelAt,              \* history: pc at which KeyboardInterrupt arrived
    cancelRows,            \* history: rows persisted when it arrived
    setupFailed,           \* history: the setup call that returned False
    results_csv,           \* rows of the results CSV file of the run
    cpu_usage,             \* SystemMonitor.cpu_usage
    memory_usage,          \* SystemMonitor.memory_usage
    gpu_usage,             \* SystemMonitor.gpu_usage
    lock,                  \* SystemMonitor._lock: 0 when free, else the holding thread
    threads,               \* position of every sampler thread started so far
    monitor_thread,        \* SystemMonitor.monitor_thread (<< >> before the first start)
    caller,                \* position of the thread that calls the monitor's methods
    system_stats,          \* the dict the caller got from get_average_usage and
                           \* holds until its next call into the monitor
    windowBase,            \* history: buffer lengths when the last window opened
    afterStop,             \* history: stop_monitoring returned, no start since
    appendedAfterStop,     \* history: a sample was appended while afterStop
    overlap,               \* history: start_monitoring met a live sampler
    detector,              \* the detector implementation under test
    detections,            \* history: what its detect calls did
    value,                 \* the argument handed to the coercers
    coerced,               \* what each coercer did with it
    result_data,           \* the arguments of one insert_result call
    inserted,              \* what that insert_result call did
    run_csv,               \* lines of the run-info CSV file of the run
    csvCalls,              \* history: the calls made on the CSVExporter
    tree,                  \* the entries under data_dir, in rglob order
    loaded,                \* what get_classified_images did
    normalizations,        \* a name and its successive normalisations
    image_faults,          \* table Images of a batch script, oldest first: what
                           \* goes wrong whenever the image is processed
    AI_Results,            \* table AI_Results: the images with a result of the model
    Errors,                \* table Errors: the component and image of its rows
    todo,                  \* local of main: the rest of the batch selected
    total_ok,              \* local of main
    main                   \* position of main of a batch script

vars == <<pc, max_images, images, i, result, err, infoRaises, processing_times,
          successful_detections, failed_detections, status, ai_runs,
          detection_results, monitoring, detectCalls, outcomes, insertCalls,
          runWrites, completionCalls, startCalls, stopCalls, storeFailed,
          escaped, cancelAt, cancelRows, setupFailed, results_csv, cpu_usage,
          memory_usage, gpu_usage, lock, threads, monitor_thread, caller,
          system_stats, windowBase, afterStop, appendedAfterStop, overlap,
          detector, detections, value, coerced, result_data, inserted,
          run_csv, csvCalls, tree, loaded, normalizations, image_faults,
          AI_Results, Errors, todo, total_ok, main>>

locals == <<images, i, result, err, infoRaises, processing_times,
            successful_detections,
            failed_detections, status>>
tables == <<ai_runs, detection_results>>
monitorHist == <<monitoring, startCalls, stopCalls>>
cancelHist == <<cancelAt, cancelRows>>
csvFiles == <<results_csv>>
buffers == <<cpu_usage, memory_usage, gpu_usage>>
monitorObject == <<buffers, lock, threads, monitor_thread, caller, system_stats>>
monitorGhost == <<windowBase, afterStop, appendedAfterStop, overlap>>
detectorVars == <<detector, detections>>
coercerVars == <<value, coerced>>
insertVars == <<result_data, inserted>>
exporterVars == <<run_csv, csvCalls>>
loaderVars == <<tree, loaded, normalizations>>
batchVars == <<image_faults, AI_Results, Errors, todo, total_ok, main>>

\* the state of the methods that are exercised by themselves, outside a run
offline == <<coercerVars, insertVars, exporterVars, loaderVars, batchVars>>

\* what a run of process_images, as modelled below, leaves alone: the CSV
\* files (DetectionProcessor holds no CSVExporter), the inside of the
\* SystemMonitor, and the detector's own steps
elsewhere == <<csvFiles, offline, monitorObject, monitorGhost, detectorVars>>

(* ------------------------------------------------------------------ *)
(* Pure helpers                                                         *)
(* ------------------------------------------------------------------ *)

\* the list 1..n as a sequence
Iota(n) == [k \in 1 .. n |-> k]

\* Python truthiness of the max_images parameter (`if max_images:`)
Truthy(m) == m # << >> /\ m[1] # 0

\* images[:max_images] for a non-negative max_images
Slice(s, m) == SubSeq(s, 1, IF m[1] < Len(s) THEN m[1] ELSE Len(s))

\* lines 82-84: the cap applied to the discovered list
CapImages(s, m) == IF Truthy(m) THEN Slice(s, m) ELSE s

\* detect raises instead of returning
DetectRaises(o) == o = "raise"

\* _format_confidences raises on a non-numeric confidence (f"{c:.3f}")
FormatConfidencesRaises(o) == o = "bad_confidences"

\* _print_detection_result raises when avg_confidence is None (f"{conf:.3f}")
PrintDetectionResultRaises(o) == o = "avg_none"

\* json.dumps(model_output) raises inside insert_result
SerializeRaises(o) == o = "unserializable"

\* str(e) of the exception the inner handler catches
ExcMessage(why) == why

\* DatabaseHandler.insert_result: TRUE iff the row is written (it returns True)
InsertResultOk(model_output, dbOk) == dbOk /\ ~SerializeRaises(model_output)

\* insert_result reached cursor.execute and the database raised an Error
DatabaseError(model_output, dbOk) == ~SerializeRaises(model_output) /\ ~dbOk

\* the row insert_result writes
ResultRow(img, success, msg) ==
    [image |-> img, success |-> success, error_message |-> msg]

\* the record of one insert_result call
CallRecord(img, success, msg, written) ==
    [image |-> img, success |-> success, error_message |-> msg, written |-> written]

\* the row insert_run writes: status and counters take the column defaults
NewRunRow ==
    [status |-> "running", total_images |-> 0,
     successful_detections |-> 0, failed_detections |-> 0]

\* the row after the UPDATE of update_run_completion
CompletedRunRow(total, succ, failed, st) ==
    [status |-> st, total_images |-> total,
     successful_detections |-> succ, failed_detections |-> failed]

\* lines 65-67: insert_run returned False, process_images raises
AfterInsertRunIgnored(ok) == "discover"

AfterInsertRun(ok) == IF ok THEN "discover" ELSE "raised"

\* line 98: the status a run starts the loop with
InitialStatusRunning == "running"

InitialStatus == "completed"

\* lines 177-196: update_run_completion catches the database Error and
\* returns False, the caller ignores what it returns
AfterUpdateRunCompletionRaising(dbOk) == IF dbOk THEN "returned" ELSE "raised"

AfterUpdateRunCompletion(dbOk) == "returned"

\* where the main thread goes after the inner handler of lines 136-156:
\* on to the pause and the next image, or, when the handler itself raised,
\* out of the loop through the outer handler of lines 164-166
HandlerNextBreak(handlerRaised) == "stop_monitor"

HandlerNext(handlerRaised) == IF handlerRaised THEN "stop_monitor" ELSE "sleep"

\* the try block of lines 100-166 narrowed to the item boundary
InTryBoundaryOnly == {"loop", "sleep"}

\* the positions inside the try block of lines 100-166
InTry == {"loop", "detect", "store", "print", "handler", "handler_store", "sleep"}

\* every position of the main thread inside process_images
Positions == {"connect", "create_tables", "insert_run", "discover",
              "start_monitor", "loop", "detect", "store", "print", "handler",
              "handler_store", "sleep", "stop_monitor", "finalize"}

TypeOK ==
    /\ pc \in Positions \cup {"returned", "raised"}
    /\ max_images \in MaxImagesParam
    /\ i \in 0 .. MaxImages
    /\ status \in {"completed", "cancelled", "failed"}
    /\ Len(ai_runs) <= 1
    /\ escaped \in {"none", "discovery", "handler"}
    /\ setupFailed \in {"none", "connect", "create_tables", "insert_run"}

(* ------------------------------------------------------------------ *)
(* Initial state: process_images has just been called on a processor    *)
(* whose SystemMonitor was just constructed; no detector is under test  *)
(* ------------------------------------------------------------------ *)

\* the state after construction of everything a run of process_images uses
Fresh ==
    /\ pc = "connect"
    /\ images = << >>
    /\ i = 0
    /\ result = "none"
    /\ err = "none"
    /\ infoRaises = FALSE
    /\ processing_times = << >>
    /\ successful_detections = 0
    /\ failed_detections = 0
    /\ status = "completed"
    /\ ai_runs = << >>
    /\ detection_results = << >>
    /\ monitoring = FALSE
    /\ detectCalls = << >>
    /\ outcomes = << >>
    /\ insertCalls = << >>
    /\ runWrites = 0
    /\ completionCalls = << >>
    /\ startCalls = 0
    /\ stopCalls = 0
    /\ storeFailed = FALSE
    /\ escaped = "none"
    /\ cancelAt = "none"
    /\ cancelRows = << >>
    /\ setupFailed = "none"
    /\ results_csv = << >>
    /\ cpu_usage = << >>
    /\ memory_usage = << >>
    /\ gpu_usage = << >>
    /\ lock = 0
    /\ threads = << >>
    /\ monitor_thread = << >>
    /\ caller = "idle"
    /\ system_stats = << >>
    /\ windowBase = <<0, 0, 0>>
    /\ afterStop = FALSE
    /\ appendedAfterStop = FALSE
    /\ overlap = FALSE
    /\ detector = "none"
    /\ detections = << >>

\* nothing has been handed to the coercers
NoCoercion == value = << >> /\ coerced = << >>

\* insert_result has not been called by itself
NoInsert == result_data = << >> /\ inserted = << >>

\* no CSVExporter has written a file
NoExport == run_csv = << >> /\ csvCalls = << >>

\* no DataLoader has looked at a directory
NoDiscovery == tree = << >> /\ loaded = << >> /\ normalizations = << >>

\* no batch script is running
NoBatch ==
    /\ image_faults = << >>
    /\ AI_Results = {}
    /\ Errors = {}
    /\ todo = << >>
    /\ total_ok = 0
    /\ main = "idle"

\* nothing has been handed to the methods that are exercised by themselves
Idle == NoCoercion /\ NoInsert /\ NoExport /\ NoDiscovery /\ NoBatch

Init ==
    /\ max_images \in MaxImagesParam
    /\ Fresh
    /\ Idle

hist == <<detectCalls, outcomes, insertCalls, runWrites, completionCalls,
          storeFailed, escaped>>

(* ------------------------------------------------------------------ *)
(* Steps of process_images                                              *)
(* ------------------------------------------------------------------ *)

\* lines 49-50: self.db.connect(), raise when it fails
Connect ==
    /\ pc = "connect"
    /\ \E ok \in BOOLEAN :
          /\ pc' = IF ok THEN "create_tables" ELSE "raised"
          /\ setupFailed' = IF ok THEN setupFailed ELSE "connect"
    /\ UNCHANGED <<max_images, elsewhere, locals, tables, monitorHist, hist, cancelHist>>

\* lines 52-53: self.db.create_tables(), raise when it fails
CreateTables ==
    /\ pc = "create_tables"
    /\ \E ok \in BOOLEAN :
          /\ pc' = IF ok THEN "insert_run" ELSE "raised"
          /\ setupFailed' = IF ok THEN setupFailed ELSE "create_tables"
    /\ UNCHANGED <<max_images, elsewhere, locals, tables, monitorHist, hist, cancelHist>>

\* lines 56-67: self.db.insert_run(...), raise when it fails
InsertRun ==
    /\ pc = "insert_run"
    /\ \E ok \in BOOLEAN :
          /\ IF ok
             THEN /\ ai_runs' = <<NewRunRow>>
                  /\ runWrites' = runWrites + 1
                  /\ UNCHANGED setupFailed
             ELSE /\ setupFailed' = "insert_run"
                  /\ UNCHANGED <<ai_runs, runWrites>>
          /\ pc' = AfterInsertRun(ok)
    /\ UNCHANGED <<max_images, elsewhere, locals, detection_results, monitorHist,
                   detectCalls, outcomes, insertCalls, completionCalls,
                   storeFailed, escaped, cancelHist>>

\* lines 72-84: discovery, the empty-list return and the max_images cap.
\* get_classified_images is called outside every try block, so an exception
\* it raises leaves process_images at once.
Discover ==
    /\ pc = "discover"
    /\ \E n \in 0 .. MaxImages, raises \in BOOLEAN :
          IF raises
          THEN /\ pc' = "raised"
               /\ escaped' = "discovery"
               /\ UNCHANGED images
          ELSE /\ images' = CapImages(Iota(n), max_images)
               /\ pc' = IF n = 0 THEN "returned" ELSE "start_monitor"
               /\ UNCHANGED escaped
    /\ UNCHANGED <<max_images, setupFailed, elsewhere, i, result, err, infoRaises, processing_times,
                   successful_detections, failed_detections, status, tables,
                   monitorHist, detectCalls, outcomes, insertCalls, runWrites,
                   completionCalls, storeFailed, cancelHist>>

\* lines 86-98: start_monitoring and the initialisation of the statistics
StartMonitoring ==
    /\ pc = "start_monitor"
    /\ monitoring' = TRUE
    /\ startCalls' = startCalls + 1
    /\ processing_times' = << >>
    /\ successful_detections' = 0
    /\ failed_detections' = 0
    /\ status' = InitialStatus
    /\ pc' = "loop"
    /\ UNCHANGED <<max_images, setupFailed, elsewhere, images, i, result, err, infoRaises, tables,
                   stopCalls, hist, cancelHist>>

\* lines 101-106: the for statement takes the next image and detect is called
\* on it, or the list is exhausted and the try block is left normally
LoopNext ==
    /\ pc = "loop"
    /\ IF i < Len(images)
       THEN /\ i' = i + 1
            /\ detectCalls' = Append(detectCalls, images[i + 1])
            /\ infoRaises' \in BOOLEAN
            /\ pc' = "detect"
       ELSE /\ pc' = "stop_monitor"
            /\ UNCHANGED <<i, detectCalls, infoRaises>>
    /\ UNCHANGED <<max_images, setupFailed, elsewhere, images, result, err, processing_times,
                   successful_detections, failed_detections, status, tables,
                   monitorHist, outcomes, insertCalls, runWrites,
                   completionCalls, storeFailed, escaped, cancelHist>>

\* lines 106-108: detect returns (the time is recorded) or raises (line 136)
DetectReturn ==
    /\ pc = "detect"
    /\ \E o \in OutcomeKinds :
          /\ outcomes' = Append(outcomes, o)
          /\ IF DetectRaises(o)
             THEN /\ err' = ExcMessage("detector_exception")
                  /\ pc' = "handler"
                  /\ UNCHANGED <<result, processing_times>>
             ELSE /\ result' = o
                  /\ processing_times' = Append(processing_times, images[i])
                  /\ pc' = "store"
                  /\ UNCHANGED err
    /\ UNCHANGED <<max_images, setupFailed, elsewhere, images, i, infoRaises, successful_detections,
                   failed_detections, status, tables, monitorHist, detectCalls,
                   insertCalls, runWrites, completionCalls, storeFailed,
                   escaped, cancelHist>>

\* lines 111-130: get_image_info, _format_confidences, insert_result with
\* success=True, and the counter chosen by what insert_result returned
StoreResult ==
    /\ pc = "store"
    /\ \E dbOk \in BOOLEAN :
          IF infoRaises \/ FormatConfidencesRaises(result)
          THEN /\ err' = ExcMessage(IF infoRaises THEN "image_info_error"
                                               ELSE "format_error")
               /\ pc' = "handler"
               /\ UNCHANGED <<detection_results, insertCalls,
                              successful_detections, failed_detections,
                              storeFailed>>
          ELSE LET written == InsertResultOk(result, dbOk) IN
               /\ insertCalls' =
                     Append(insertCalls, CallRecord(images[i], 1, "NULL", written))
               /\ detection_results' =
                     IF written
                     THEN Append(detection_results, ResultRow(images[i], 1, "NULL"))
                     ELSE detection_results
               /\ successful_detections' =
                     IF written THEN successful_detections + 1
                                ELSE successful_detections
               /\ failed_detections' =
                     IF written THEN failed_detections
                                ELSE failed_detections + 1
               /\ storeFailed' = (storeFailed \/ DatabaseError(result, dbOk))
               /\ pc' = "print"
               /\ UNCHANGED err
    /\ UNCHANGED <<max_images, setupFailed, elsewhere, images, i, result, infoRaises, processing_times,
                   status, ai_runs, monitorHist, detectCalls, outcomes,
                   runWrites, completionCalls, escaped, cancelHist>>

\* lines 133-134: _print_detection_result, still inside the inner try
PrintDetectionResult ==
    /\ pc = "print"
    /\ IF PrintDetectionResultRaises(result)
       THEN /\ err' = ExcMessage("print_error")
            /\ pc' = "handler"
       ELSE /\ pc' = "sleep"
            /\ UNCHANGED err
    /\ UNCHANGED <<max_images, setupFailed, elsewhere, images, i, result, infoRaises, processing_times,
                   successful_detections, failed_detections, status, tables,
                   monitorHist, hist, cancelHist>>

\* lines 136-139: the inner handler records a time and counts a failure
HandlerCount ==
    /\ pc = "handler"
    /\ processing_times' = Append(processing_times, images[i])
    /\ failed_detections' = failed_detections + 1
    /\ pc' = "handler_store"
    /\ UNCHANGED <<max_images, setupFailed, elsewhere, images, i, result, err, infoRaises,
                   successful_detections, status, tables, monitorHist, hist,
                   cancelHist>>

\* lines 141-156: the inner handler stores the failed result; an exception
\* raised here (get_image_info) reaches the outer handler of lines 164-166.
\* get_image_info is a function of the image: when it raised at line 111 it
\* raises again at line 142.
HandlerStore ==
    /\ pc = "handler_store"
    /\ \E dbOk \in BOOLEAN :
          IF infoRaises
          THEN /\ escaped' = "handler"
               /\ status' = "failed"
               /\ pc' = HandlerNext(TRUE)
               /\ UNCHANGED <<detection_results, insertCalls, storeFailed>>
          ELSE LET written == InsertResultOk("None", dbOk) IN
               /\ insertCalls' =
                     Append(insertCalls, CallRecord(images[i], 0, err, written))
               /\ detection_results' =
                     IF written
                     THEN Append(detection_results, ResultRow(images[i], 0, err))
                     ELSE detection_results
               /\ storeFailed' = (storeFailed \/ DatabaseError("None", dbOk))
               /\ pc' = HandlerNext(FALSE)
               /\ UNCHANGED <<escaped, status>>
    /\ UNCHANGED <<max_images, setupFailed, elsewhere, images, i, result, err, infoRaises,
                   processing_times, successful_detections, failed_detections,
                   ai_runs, monitorHist, detectCalls, outcomes, runWrites,
                   completionCalls, cancelHist>>

\* line 159: the pause between two images
Sleep ==
    /\ pc = "sleep"
    /\ pc' = "loop"
    /\ UNCHANGED <<max_images, setupFailed, elsewhere, locals, tables, monitorHist, hist, cancelHist>>

\* A KeyboardInterrupt is raised in the main thread wherever it happens to
\* be.  Inside the try block of lines 100-166 it is caught by line 161 (it is
\* no Exception, so neither a detector nor the inner handler catches it);
\* anywhere else it leaves process_images.  A result write that was in
\* progress may or may not have reached the database.
KeyboardInterrupt ==
    /\ cancelAt = "none"
    /\ pc \in Positions
    /\ cancelAt' = pc
    /\ cancelRows' = detection_results
    /\ \E written \in BOOLEAN :
          /\ written =>
                \/ pc = "store" /\ ~infoRaises /\ ~FormatConfidencesRaises(result)
                                /\ InsertResultOk(result, TRUE)
                \/ pc = "handler_store" /\ ~infoRaises
          /\ detection_results' =
                IF written
                THEN Append(detection_results,
                            IF pc = "store" THEN ResultRow(images[i], 1, "NULL")
                                            ELSE ResultRow(images[i], 0, err))
                ELSE detection_results
          /\ insertCalls' =
                IF written
                THEN Append(insertCalls,
                            IF pc = "store"
                            THEN CallRecord(images[i], 1, "NULL", TRUE)
                            ELSE CallRecord(images[i], 0, err, TRUE))
                ELSE insertCalls
    /\ IF pc \in InTry
       THEN /\ status' = "cancelled"
            /\ pc' = "stop_monitor"
       ELSE /\ pc' = "raised"
            /\ UNCHANGED status
    /\ UNCHANGED <<max_images, setupFailed, elsewhere, images, i, result, err, infoRaises,
                   processing_times, successful_detections, failed_detections,
                   ai_runs, monitorHist, detectCalls, outcomes, runWrites,
                   completionCalls, storeFailed, escaped>>

\* line 169: self.monitor.stop_monitoring()
StopMonitoring ==
    /\ pc = "stop_monitor"
    /\ monitoring' = FALSE
    /\ stopCalls' = stopCalls + 1
    /\ pc' = "finalize"
    /\ UNCHANGED <<max_images, setupFailed, elsewhere, locals, tables, startCalls, hist, cancelHist>>

\* lines 171-196: update_run_completion with len(images), the two counters
\* and the status (an UPDATE of the row of this run_id); its return value is
\* ignored
UpdateRunCompletion ==
    /\ pc = "finalize"
    /\ completionCalls' =
          Append(completionCalls,
                 CompletedRunRow(Len(images), successful_detections,
                                 failed_detections, status))
    /\ runWrites' = runWrites + 1
    /\ \E dbOk \in BOOLEAN :
          /\ IF dbOk /\ ai_runs # << >>
             THEN ai_runs' = <<CompletedRunRow(Len(images), successful_detections,
                                               failed_detections, status)>>
             ELSE UNCHANGED ai_runs
          /\ pc' = AfterUpdateRunCompletion(dbOk)
    /\ UNCHANGED <<max_images, setupFailed, elsewhere, locals, detection_results, monitorHist,
                   detectCalls, outcomes, insertCalls, storeFailed, escaped,
                   cancelHist>>

Next ==
    \/ Connect
    \/ CreateTables
    \/ InsertRun
    \/ Discover
    \/ StartMonitoring
    \/ LoopNext
    \/ DetectReturn
    \/ StoreResult
    \/ PrintDetectionResult
    \/ HandlerCount
    \/ HandlerStore
    \/ Sleep
    \/ KeyboardInterrupt
    \/ StopMonitoring
    \/ UpdateRunCompletion

Spec == Init /\ [][Next]_vars

(* ------------------------------------------------------------------ *)
(* SystemMonitor: the calling thread and the sampler threads            *)
(* ------------------------------------------------------------------ *)

\* psutil.cpu_percent() (line 37)
CpuReadings == {20, 80}

\* psutil.virtual_memory().percent (lines 40-41)
MemoryReadings == {40}

\* gpus[0].load * 100 (line 48)
GpuReadings == {60}

\* What the GPU query of lines 44-52 can do: the import of GPUtil fails
\* (ImportError, caught), getGPUs() returns an empty list, it returns a GPU
\* whose load is read, or it raises something that is no ImportError (GPUtil
\* parses the output of nvidia-smi with int() and float()).
GpuQueries == {"import_error", "no_gpu", "load", "error"}

\* the positions of a sampler thread in _monitor_loop
SamplerPositions == {"check", "acquire", "gpu", "done"}

\* the values the fields of the monitor and its threads take
MonitorTypeOK ==
    /\ monitoring \in BOOLEAN
    /\ lock \in 0 .. MaxStarts
    /\ caller \in {"idle", "join"}
    /\ Len(threads) = startCalls
    /\ \A t \in 1 .. Len(threads) : threads[t] \in SamplerPositions
    /\ lock # 0 => threads[lock] = "gpu"
    /\ monitor_thread = IF threads = << >> THEN << >> ELSE <<Len(threads)>>
    /\ Len(system_stats) <= 1

\* what the methods of the monitor leave alone
processVars == <<pc, max_images, locals, tables, hist, cancelHist, setupFailed,
                 csvFiles, offline, detectorVars>>

RECURSIVE SumSeq(_)
SumSeq(s) == IF s = << >> THEN 0 ELSE Head(s) + SumSeq(Tail(s))

\* max(s) of a non-empty list
MaxSeq(s) ==
    CHOOSE x \in {s[k] : k \in 1 .. Len(s)} :
       \A k \in 1 .. Len(s) : s[k] <= x

RECURSIVE Gcd(_, _)
Gcd(a, b) == IF b = 0 THEN a ELSE Gcd(b, a % b)

\* np.mean(s) as the exact fraction <<numerator, denominator>> in lowest
\* terms; <<0, 0>> is the nan that np.mean returns for an empty list
Mean(s) ==
    IF s = << >>
    THEN <<0, 0>>
    ELSE <<SumSeq(s) \div Gcd(SumSeq(s), Len(s)), Len(s) \div Gcd(SumSeq(s), Len(s))>>

\* `np.mean(xs) if xs else 0` (lines 60, 62, 64); 0 is the fraction <<0, 1>>
MeanUnguarded(s) == Mean(s)

MeanOrZero(s) == IF s # << >> THEN Mean(s) ELSE <<0, 1>>

\* `max(xs) if xs else 0` (lines 61, 63, 65)
MaxOrZero(s) == IF s # << >> THEN MaxSeq(s) ELSE 0

\* the dict get_average_usage builds from the three buffers
Usage(c, m, g) ==
    [avg_cpu |-> MeanOrZero(c), max_cpu |-> MaxOrZero(c),
     avg_memory |-> MeanOrZero(m), max_memory |-> MaxOrZero(m),
     avg_gpu |-> MeanOrZero(g), max_gpu |-> MaxOrZero(g)]

\* the lengths of the three buffers
Lens == <<Len(cpu_usage), Len(memory_usage), Len(gpu_usage)>>

\* the part of a buffer appended since it had length b
Window(s, b) == SubSeq(s, b + 1, Len(s))

\* the sampler threads that have not terminated
Live == {t \in 1 .. Len(threads) : threads[t] # "done"}

\* Thread.join() returns once the thread has terminated
JoinedAtOnce(position) == TRUE

Joined(position) == position = "done"

\* lines 19-24: start_monitoring sets the flag and starts a new thread, which
\* replaces self.monitor_thread; the buffers are left as they are
start_monitoring ==
    /\ caller = "idle"
    /\ startCalls < MaxStarts
    /\ monitoring' = TRUE
    /\ threads' = Append(threads, "check")
    /\ monitor_thread' = <<Len(threads) + 1>>
    /\ startCalls' = startCalls + 1
    /\ windowBase' = Lens
    /\ afterStop' = FALSE
    /\ overlap' = (overlap \/ Live # {})
    /\ system_stats' = << >>
    /\ UNCHANGED <<processVars, buffers, lock, caller, stopCalls,
                   appendedAfterStop>>

\* lines 26-30: stop_monitoring clears the flag; without a monitor_thread
\* attribute it returns, otherwise it goes on to join
stop_monitoring ==
    /\ caller = "idle"
    /\ stopCalls <= startCalls
    /\ monitoring' = FALSE
    /\ IF monitor_thread = << >>
       THEN /\ stopCalls' = stopCalls + 1
            /\ afterStop' = TRUE
            /\ UNCHANGED caller
       ELSE /\ caller' = "join"
            /\ UNCHANGED <<stopCalls, afterStop>>
    /\ system_stats' = << >>
    /\ UNCHANGED <<processVars, buffers, lock, threads, monitor_thread,
                   startCalls, windowBase, appendedAfterStop, overlap>>

\* line 30: self.monitor_thread.join() returns and with it stop_monitoring
join ==
    /\ caller = "join"
    /\ Joined(threads[monitor_thread[1]])
    /\ caller' = "idle"
    /\ stopCalls' = stopCalls + 1
    /\ afterStop' = TRUE
    /\ UNCHANGED <<processVars, buffers, lock, threads, monitor_thread,
                   system_stats, monitoring, startCalls, windowBase,
                   appendedAfterStop, overlap>>

\* lines 56-66: get_average_usage takes the lock, builds the dict, releases.
\* Beside the dict the model notes what the call would have returned from
\* the samples of the current window alone, and when it was made.
get_average_usage ==
    /\ caller = "idle"
    /\ lock = 0
    /\ system_stats' =
          <<[usage |-> Usage(cpu_usage, memory_usage, gpu_usage),
             window |-> Usage(Window(cpu_usage, windowBase[1]),
                              Window(memory_usage, windowBase[2]),
                              Window(gpu_usage, windowBase[3])),
             samples |-> Lens,
             afterStop |-> afterStop]>>
    /\ UNCHANGED <<processVars, buffers, lock, threads, monitor_thread, caller,
                   monitorHist, monitorGhost>>

\* lines 68-73: reset_stats takes the lock and clears the three buffers
reset_stats ==
    /\ caller = "idle"
    /\ lock = 0
    /\ Lens # <<0, 0, 0>>
    /\ cpu_usage' = << >>
    /\ memory_usage' = << >>
    /\ gpu_usage' = << >>
    /\ windowBase' = <<0, 0, 0>>
    /\ system_stats' = << >>
    /\ UNCHANGED <<processVars, lock, threads, monitor_thread, caller,
                   monitorHist, afterStop, appendedAfterStop, overlap>>

\* line 34: `while self.monitoring`, reached at the start of the thread and
\* after each time.sleep(0.5) of line 54
LoopCheck(t) ==
    /\ threads[t] = "check"
    /\ monitoring => Len(cpu_usage) < MaxSamples
    /\ threads' = [threads EXCEPT ![t] = IF monitoring THEN "acquire" ELSE "done"]
    /\ UNCHANGED <<processVars, buffers, lock, monitor_thread, caller,
                   system_stats, monitorHist, monitorGhost>>

\* lines 35-41: `with self._lock` is entered and the CPU and the memory
\* reading are appended; nothing else runs under the lock meanwhile
LoopSample(t) ==
    /\ threads[t] = "acquire"
    /\ lock = 0
    /\ lock' = t
    /\ \E reading \in CpuReadings : cpu_usage' = Append(cpu_usage, reading)
    /\ \E reading \in MemoryReadings :
          memory_usage' = Append(memory_usage, reading)
    /\ appendedAfterStop' = (appendedAfterStop \/ afterStop)
    /\ threads' = [threads EXCEPT ![t] = "gpu"]
    /\ UNCHANGED <<processVars, gpu_usage, monitor_thread, caller,
                   system_stats, monitorHist, windowBase, afterStop, overlap>>

\* lines 44-54: the GPU query, the append of its value (0 without GPUtil or
\* without a GPU), the end of the with block and the sleep.  Only ImportError
\* is caught: any other exception leaves the with block, which releases the
\* lock, and ends the thread.
AppendGpu(t) ==
    /\ threads[t] = "gpu"
    /\ \E query \in GpuQueries, reading \in GpuReadings :
          IF query = "error"
          THEN /\ threads' = [threads EXCEPT ![t] = "done"]
               /\ UNCHANGED <<gpu_usage, appendedAfterStop>>
          ELSE /\ gpu_usage' =
                     Append(gpu_usage, IF query = "load" THEN reading ELSE 0)
               /\ appendedAfterStop' = (appendedAfterStop \/ afterStop)
               /\ threads' = [threads EXCEPT ![t] = "check"]
    /\ lock' = 0
    /\ UNCHANGED <<processVars, cpu_usage, memory_usage, monitor_thread, caller,
                   system_stats, monitorHist, windowBase, afterStop, overlap>>

InitMonitor == Init /\ max_images = << >>

NextMonitor ==
    \/ start_monitoring
    \/ stop_monitoring
    \/ join
    \/ get_average_usage
    \/ reset_stats
    \/ \E t \in 1 .. Len(threads) : LoopCheck(t)
    \/ \E t \in 1 .. Len(threads) : LoopSample(t)
    \/ \E t \in 1 .. Len(threads) : AppendGpu(t)

SpecMonitor == InitMonitor /\ [][NextMonitor]_vars

(* ------------------------------------------------------------------ *)
(* The detector implementations: what one detect call does              *)
(* ------------------------------------------------------------------ *)

Detectors == {"UltralyticsDetector", "DeepFacePersonDetector",
              "OllamaGemma3PersonDetector", "GemmaPersonDetector"}

\* the dict detect returns, reduced to the fields of the detector contract;
\* 'uncertain' and 'error' are "absent" when the dict has no such key
Outcome(persons, uncertain, error) ==
    [raised |-> FALSE, persons_detected |-> persons, uncertain |-> uncertain,
     error |-> error]

\* detect returned nothing: the exception left it
Propagated ==
    [raised |-> TRUE, persons_detected |-> 0, uncertain |-> "absent",
     error |-> "absent"]

\* _create_error_result of the two language-model detectors and the dict of
\* DeepFacePersonDetector.detect lines 127-138
ErrorResult(e) == Outcome(0, "true", e)

\* a Python bool as it appears in the dict
Bool(b) == IF b THEN "true" ELSE "false"

\* UltralyticsDetector.detect: no try block, and a dict without 'uncertain'
UltralyticsDetect(failure, persons) ==
    IF failure = "model"
    THEN Propagated
    ELSE Outcome(persons, "absent", "absent")

\* DeepFacePersonDetector.detect with the default backend 'opencv': a
\* failing extract_faces is printed and leaves faces = [], a failing analyze
\* falls back to counting the extracted faces, anything else reaches the
\* outer handler of line 127
DeepFaceDetect(failure, faces, valid, low) ==
    IF failure = "other"
    THEN ErrorResult("other")
    ELSE LET found == IF failure = "extract_faces" THEN 0 ELSE faces
             kept == IF valid <= found THEN valid ELSE found
         IN  Outcome(kept, Bool(IF kept > 0 THEN low ELSE found > 0), "absent")

\* OllamaGemma3PersonDetector.detect: every exception of _encode_image, of the
\* HTTP request and of _parse_response ends in _create_error_result
OllamaDetect(failure, persons, low) ==
    IF failure # "none"
    THEN ErrorResult(failure)
    ELSE Outcome(persons, Bool(low), "absent")

\* GemmaPersonDetector.detect: the same pattern
GemmaDetect(failure, persons, low) ==
    IF failure # "none"
    THEN ErrorResult(failure)
    ELSE Outcome(persons, Bool(low), "absent")

\* one detect call as the history keeps it
Detection(failure, outcome) == [failure |-> failure, outcome |-> outcome]

\* a detector is constructed
NewDetector ==
    /\ detector = "none"
    /\ detector' \in Detectors
    /\ UNCHANGED <<pc, max_images, locals, tables, monitorHist, hist,
                   cancelHist, setupFailed, csvFiles, offline,
                   monitorObject,
                   monitorGhost, detections>>

\* src/UltralyticsDetector.py lines 17-46
UltralyticsDetectorDetect ==
    /\ detector = "UltralyticsDetector"
    /\ Len(detections) < MaxDetections
    /\ \E failure \in {"none", "model"}, persons \in 0 .. MaxPersons :
          detections' =
             Append(detections,
                    Detection(failure, UltralyticsDetect(failure, persons)))
    /\ UNCHANGED <<pc, max_images, locals, tables, monitorHist, hist,
                   cancelHist, setupFailed, csvFiles, offline,
                   monitorObject,
                   monitorGhost, detector>>

\* src/DeepFacePersonDetector.py lines 23-138
DeepFacePersonDetectorDetect ==
    /\ detector = "DeepFacePersonDetector"
    /\ Len(detections) < MaxDetections
    /\ \E failure \in {"none", "extract_faces", "analyze", "other"},
          faces \in 0 .. MaxPersons, valid \in 0 .. MaxPersons,
          low \in BOOLEAN :
          /\ failure = "analyze" => faces > 0
          /\ detections' =
                Append(detections,
                       Detection(failure,
                                 DeepFaceDetect(failure, faces, valid, low)))
    /\ UNCHANGED <<pc, max_images, locals, tables, monitorHist, hist,
                   cancelHist, setupFailed, csvFiles, offline,
                   monitorObject,
                   monitorGhost, detector>>

\* src/OllamaGemma3PersonDetector.py lines 106-151
OllamaGemma3PersonDetectorDetect ==
    /\ detector = "OllamaGemma3PersonDetector"
    /\ Len(detections) < MaxDetections
    /\ \E failure \in {"none", "encode_image", "http", "parse"},
          persons \in 0 .. MaxPersons, low \in BOOLEAN :
          detections' =
             Append(detections,
                    Detection(failure, OllamaDetect(failure, persons, low)))
    /\ UNCHANGED <<pc, max_images, locals, tables, monitorHist, hist,
                   cancelHist, setupFailed, csvFiles, offline,
                   monitorObject,
                   monitorGhost, detector>>

\* src/GemmaPersonDetector.py lines 51-109
GemmaPersonDetectorDetect ==
    /\ detector = "GemmaPersonDetector"
    /\ Len(detections) < MaxDetections
    /\ \E failure \in {"none", "open_image", "generate", "parse"},
          persons \in 0 .. MaxPersons, low \in BOOLEAN :
          detections' =
             Append(detections,
                    Detection(failure, GemmaDetect(failure, persons, low)))
    /\ UNCHANGED <<pc, max_images, locals, tables, monitorHist, hist,
                   cancelHist, setupFailed, csvFiles, offline,
                   monitorObject,
                   monitorGhost, detector>>

InitDetectors == Init /\ max_images = << >>

NextDetectors ==
    \/ NewDetector
    \/ UltralyticsDetectorDetect
    \/ DeepFacePersonDetectorDetect
    \/ OllamaGemma3PersonDetectorDetect
    \/ GemmaPersonDetectorDetect

SpecDetectors == InitDetectors /\ [][NextDetectors]_vars

(* ------------------------------------------------------------------ *)
(* Python values, and the coercers of the two sinks                     *)
(* ------------------------------------------------------------------ *)

\* A Python value is its type, its number as a fraction <<numerator,
\* denominator>> in lowest terms, and its characters when it is a str.
\* float('nan'), float('inf') and float('-inf') are the three fractions
\* with denominator 0.
NaN == <<0, 0>>
Inf == <<1, 0>>
NegInf == <<-1, 0>>

PyNone == [type |-> "NoneType", num |-> <<0, 1>>, text |-> << >>]
PyBool(b) == [type |-> "bool", num |-> IF b THEN <<1, 1>> ELSE <<0, 1>>, text |-> << >>]
PyInt(n) == [type |-> "int", num |-> <<n, 1>>, text |-> << >>]
PyFloat(f) == [type |-> "float", num |-> f, text |-> << >>]
PyStr(s) == [type |-> "str", num |-> <<0, 1>>, text |-> s]
\* a list of n items, the stand-in for "any other object"
PyList(n) == [type |-> "list", num |-> <<n, 1>>, text |-> << >>]

\* what a call did: it returned a value, or an exception left it
Returns(v) == [raised |-> "none", value |-> v]
Raises(e) == [raised |-> e, value |-> PyNone]
NotCalled == [raised |-> "not_called", value |-> PyNone]

\* the strings handed to the coercers, as sequences of characters
Strings ==
    {<<"T", "R", "U", "E">>, <<"t", "r", "u", "e">>,
     <<" ", "t", "r", "u", "e", " ">>, <<"1">>, <<"y", "e", "s">>,
     <<"O", "n">>, <<"f", "a", "l", "s", "e">>, <<"F", "a", "l", "s", "e">>,
     <<"0">>, <<"n", "o">>, <<"o", "f", "f">>, << >>, <<" ">>,
     <<" ", "0", " ">>, <<"m", "a", "y", "b", "e">>, <<"2">>, <<"0", "0">>,
     <<"0", ".", "0">>, <<"0", ".", "5">>, <<"1", ".", "5">>, <<"-", "1">>,
     <<"n", "a", "n">>, <<"N", "a", "N">>, <<"i", "n", "f">>}

\* the inputs of the coercers: None, the booleans, integers, floats with
\* NaN and infinity, strings, and two other objects
Values ==
    {PyNone, PyBool(TRUE), PyBool(FALSE), PyList(0), PyList(1)}
    \cup {PyInt(n) : n \in {-1, 0, 1, 2}}
    \cup {PyFloat(f) : f \in {<<0, 1>>, <<1, 2>>, <<3, 2>>, NaN, Inf}}
    \cup {PyStr(s) : s \in Strings}

UpperCase ==
    <<"A", "B", "C", "D", "E", "F", "G", "H", "I", "J", "K", "L", "M",
      "N", "O", "P", "Q", "R", "S", "T", "U", "V", "W", "X", "Y", "Z">>
LowerCase ==
    <<"a", "b", "c", "d", "e", "f", "g", "h", "i", "j", "k", "l", "m",
      "n", "o", "p", "q", "r", "s", "t", "u", "v", "w", "x", "y", "z">>
Digits == <<"0", "1", "2", "3", "4", "5", "6", "7", "8", "9">>
Whitespace == {" ", "\t", "\n"}

\* str.lower()
ToLower(c) ==
    IF \E k \in 1 .. Len(UpperCase) : UpperCase[k] = c
    THEN LowerCase[CHOOSE k \in 1 .. Len(UpperCase) : UpperCase[k] = c]
    ELSE c
RECURSIVE Lower(_)
Lower(s) == IF s = << >> THEN << >> ELSE <<ToLower(Head(s))>> \o Lower(Tail(s))

\* str.lstrip(chars), str.rstrip(chars) and str.strip(chars)
RECURSIVE LStrip(_, _)
LStrip(s, chars) ==
    IF s # << >> /\ Head(s) \in chars THEN LStrip(Tail(s), chars) ELSE s
RECURSIVE RStrip(_, _)
RStrip(s, chars) ==
    IF s # << >> /\ s[Len(s)] \in chars
    THEN RStrip(SubSeq(s, 1, Len(s) - 1), chars)
    ELSE s
StripChars(s, chars) == RStrip(LStrip(s, chars), chars)
\* str.strip()
Strip(s) == StripChars(s, Whitespace)

IsDigit(c) == \E d \in 1 .. Len(Digits) : Digits[d] = c
AllDigits(s) == \A k \in 1 .. Len(s) : IsDigit(s[k])
DigitOf(c) == (CHOOSE d \in 1 .. Len(Digits) : Digits[d] = c) - 1
RECURSIVE DigitsValue(_)
DigitsValue(s) ==
    IF s = << >>
    THEN 0
    ELSE 10 * DigitsValue(SubSeq(s, 1, Len(s) - 1)) + DigitOf(s[Len(s)])
RECURSIVE Pow10(_)
Pow10(k) == IF k = 0 THEN 1 ELSE 10 * Pow10(k - 1)

\* the fraction n/d, d > 0, in lowest terms
Frac(n, d) ==
    LET g == Gcd(IF n < 0 THEN -n ELSE n, d)
    IN  <<(IF n < 0 THEN -((-n) \div g) ELSE n \div g), d \div g>>
Negated(f) == <<-f[1], f[2]>>

Unparsed == [ok |-> FALSE, num |-> <<0, 1>>]
Parsed(f) == [ok |-> TRUE, num |-> f]

\* the literal float(str) accepts after the sign: nan, inf, infinity, or
\* decimal digits with at most one point (exponents are not among Strings)
ParseUnsigned(t) ==
    LET dots == {k \in 1 .. Len(t) : t[k] = "."}
    IN  IF Lower(t) = <<"n", "a", "n">>
        THEN Parsed(NaN)
        ELSE IF Lower(t) \in {<<"i", "n", "f">>,
                              <<"i", "n", "f", "i", "n", "i", "t", "y">>}
        THEN Parsed(Inf)
        ELSE IF dots = {}
        THEN IF t # << >> /\ AllDigits(t)
             THEN Parsed(<<DigitsValue(t), 1>>)
             ELSE Unparsed
        ELSE IF Cardinality(dots) = 1
        THEN LET k == CHOOSE j \in dots : TRUE
                 whole == SubSeq(t, 1, k - 1)
                 frac == SubSeq(t, k + 1, Len(t))
             IN  IF AllDigits(whole) /\ AllDigits(frac)
                    /\ Len(whole) + Len(frac) > 0
                 THEN Parsed(Frac(DigitsValue(whole) * Pow10(Len(frac))
                                     + DigitsValue(frac),
                                  Pow10(Len(frac))))
                 ELSE Unparsed
        ELSE Unparsed

\* float(str): surrounding whitespace and a sign are accepted
ParseFloat(s) ==
    LET t == Strip(s)
        signed == t # << >> /\ Head(t) \in {"+", "-"}
        u == ParseUnsigned(IF signed THEN Tail(t) ELSE t)
    IN  IF u.ok /\ signed /\ Head(t) = "-" THEN Parsed(Negated(u.num)) ELSE u

\* int(str): surrounding whitespace, a sign and decimal digits
ParseInt(s) ==
    LET t == Strip(s)
        signed == t # << >> /\ Head(t) \in {"+", "-"}
        body == IF signed THEN Tail(t) ELSE t
    IN  IF body # << >> /\ AllDigits(body)
        THEN Parsed(<<(IF signed /\ Head(t) = "-"
                       THEN -DigitsValue(body)
                       ELSE DigitsValue(body)), 1>>)
        ELSE Unparsed

\* float(value)
FloatOf(v) ==
    IF v.type \in {"bool", "int", "float"}
    THEN Returns(PyFloat(v.num))
    ELSE IF v.type = "str"
    THEN IF ParseFloat(v.text).ok
         THEN Returns(PyFloat(ParseFloat(v.text).num))
         ELSE Raises("ValueError")
    ELSE Raises("TypeError")

\* int(float) rounds towards zero
Truncated(f) ==
    IF f[1] < 0 THEN -((-f[1]) \div f[2]) ELSE f[1] \div f[2]

\* int(value): int(nan) is a ValueError, int(inf) an OverflowError
IntOf(v) ==
    IF v.type \in {"bool", "int"}
    THEN Returns(PyInt(v.num[1]))
    ELSE IF v.type = "float"
    THEN IF v.num = NaN
         THEN Raises("ValueError")
         ELSE IF v.num \in {Inf, NegInf}
         THEN Raises("OverflowError")
         ELSE Returns(PyInt(Truncated(v.num)))
    ELSE IF v.type = "str"
    THEN IF ParseInt(v.text).ok
         THEN Returns(PyInt(ParseInt(v.text).num[1]))
         ELSE Raises("ValueError")
    ELSE Raises("TypeError")

\* bool(value): nan is not equal to 0 and therefore true
Truth(v) ==
    IF v.type \in {"bool", "int", "float", "list"}
    THEN v.num # <<0, 1>>
    ELSE IF v.type = "str"
    THEN v.text # << >>
    ELSE FALSE

\* `except (ValueError, TypeError)`: what the handler turns a call into
Except(call, fallback) ==
    IF call.raised \in {"ValueError", "TypeError"} THEN Returns(fallback) ELSE call

TrueTokens == {<<"t", "r", "u", "e">>, <<"1">>, <<"y", "e", "s">>, <<"o", "n">>}
FalseTokens ==
    {<<"f", "a", "l", "s", "e">>, <<"0">>, <<"n", "o">>, <<"o", "f", "f">>, << >>}

\* `1 if x != 0 else 0`
OneIfNonZero(f) == PyInt(IF f # <<0, 1>> THEN 1 ELSE 0)

\* DatabaseHandler._safe_convert_to_int
safe_convert_to_int_case_sensitive(v) ==
    IF v.type = "str" /\ v.text \in TrueTokens THEN Returns(PyInt(1)) ELSE Returns(PyInt(0))
safe_convert_to_int(v) ==
    IF v.type = "NoneType"
    THEN Returns(PyInt(0))
    ELSE IF v.type = "bool"
    THEN Returns(PyInt(IF Truth(v) THEN 1 ELSE 0))
    ELSE IF v.type = "str"
    THEN LET lower_val == Strip(Lower(v.text))
         IN  IF lower_val \in TrueTokens
             THEN Returns(PyInt(1))
             ELSE IF lower_val \in FalseTokens
             THEN Returns(PyInt(0))
             ELSE IF FloatOf(v).raised = "none"
             THEN Returns(OneIfNonZero(FloatOf(v).value.num))
             ELSE Except(FloatOf(v), PyInt(0))
    ELSE IF v.type \in {"int", "float"}
    THEN Returns(OneIfNonZero(v.num))
    ELSE Returns(PyInt(IF Truth(v) THEN 1 ELSE 0))

\* DatabaseHandler._safe_convert_to_float
safe_convert_to_float(v) ==
    IF v.type = "NoneType"
    THEN Returns(PyNone)
    ELSE IF FloatOf(v).raised = "none"
    THEN IF FloatOf(v).value.num = NaN
         THEN Returns(PyNone)
         ELSE FloatOf(v)
    ELSE Except(FloatOf(v), PyNone)

\* DatabaseHandler._safe_convert_to_int_nullable
safe_convert_to_int_nullable(v) ==
    IF v.type = "NoneType" THEN Returns(PyNone) ELSE Except(IntOf(v), PyNone)

\* CSVExporter._safe_bool_string
safe_bool_string(v) ==
    IF v.type = "NoneType"
    THEN Returns(PyStr(<< >>))
    ELSE IF Truth(v)
    THEN Returns(PyStr(<<"t", "r", "u", "e">>))
    ELSE Returns(PyStr(<<"f", "a", "l", "s", "e">>))

Coercers ==
    {"_safe_convert_to_int", "_safe_convert_to_float",
     "_safe_convert_to_int_nullable", "_safe_bool_string"}

\* everything of a run, of the monitor and of the detectors
online == <<pc, max_images, locals, tables, monitorHist, hist, cancelHist,
            setupFailed, monitorObject, monitorGhost, detectorVars>>

\* one call of a coercer with the value
Coerce(name, call) ==
    /\ value # << >>
    /\ coerced[name] = NotCalled
    /\ coerced' = [coerced EXCEPT ![name] = call]
    /\ UNCHANGED <<online, batchVars, csvFiles, value, insertVars, exporterVars, loaderVars>>

\* src/DatabaseHandler.py lines 141-163
ConvertToInt == Coerce("_safe_convert_to_int", safe_convert_to_int(value))

\* src/DatabaseHandler.py lines 165-176
ConvertToFloat == Coerce("_safe_convert_to_float", safe_convert_to_float(value))

\* src/DatabaseHandler.py lines 178-185
ConvertToIntNullable ==
    Coerce("_safe_convert_to_int_nullable", safe_convert_to_int_nullable(value))

\* src/CSVExporter.py lines 189-193
BoolString == Coerce("_safe_bool_string", safe_bool_string(value))

InitCoercers ==
    /\ max_images = << >>
    /\ Fresh
    /\ value \in Values
    /\ coerced = [c \in Coercers |-> NotCalled]
    /\ NoInsert /\ NoExport /\ NoDiscovery /\ NoBatch

NextCoercers ==
    \/ ConvertToInt
    \/ ConvertToFloat
    \/ ConvertToIntNullable
    \/ BoolString

SpecCoercers == InitCoercers /\ [][NextCoercers]_vars

(* ------------------------------------------------------------------ *)
(* DatabaseHandler.insert_result by itself                              *)
(* ------------------------------------------------------------------ *)

\* a key the dict does not hold
Absent == [type |-> "absent", num |-> <<0, 1>>, text |-> << >>]

\* dict.get(key, default)
Get(v, default) == IF v = Absent THEN default ELSE v

\* A model_output: kind is "dict", "empty" for {} and "None" for None;
\* 'confidences' is kept as the number of its entries, 'error' as whether
\* the key is there, and serializable tells whether json.dumps accepts it.
ModelOutput(persons, avg, max, min, uncertain, confidences, error) ==
    [kind |-> "dict", persons_detected |-> persons, avg_confidence |-> avg,
     max_confidence |-> max, min_confidence |-> min, uncertain |-> uncertain,
     confidences |-> confidences, error |-> error, serializable |-> TRUE]

\* the confidences a detector reports for a person it found
Confidences == {<<9, 10>>, <<1, 2>>}

\* OllamaGemma3PersonDetector._create_error_result, and the same dict of
\* GemmaPersonDetector and of DeepFacePersonDetector.detect lines 127-138
create_error_result ==
    ModelOutput(PyInt(0), PyFloat(<<0, 1>>), PyFloat(<<0, 1>>),
                PyFloat(<<0, 1>>), PyBool(TRUE), 0, TRUE)

\* DeepFacePersonDetector.detect lines 111-125 when no face passed
DeepFaceNothingFound(faces) ==
    ModelOutput(PyInt(0), PyFloat(<<0, 1>>), PyFloat(<<0, 1>>),
                PyFloat(<<0, 1>>), PyBool(faces), 0, FALSE)

\* a detector's dict for one person found with confidence c
OnePersonFound(c) ==
    ModelOutput(PyInt(1), PyFloat(c), PyFloat(c), PyFloat(c),
                PyBool(c[1] * 10 < 7 * c[2]), 1, FALSE)

\* UltralyticsDetector.detect lines 40-46 when no person was found: integer
\* zeros, and neither 'min_confidence' nor 'uncertain'
UltralyticsNothingFound ==
    ModelOutput(PyInt(0), PyInt(0), PyInt(0), Absent, Absent, 0, FALSE)

\* what the detectors of src/ hand over
DetectorOutputs ==
    {create_error_result, UltralyticsNothingFound}
    \cup {DeepFaceNothingFound(faces) : faces \in BOOLEAN}
    \cup {OnePersonFound(c) : c \in Confidences}

\* one field of a detector's dict replaced by any value, or dropped
FieldValues == Values \cup {Absent}
MalformedOutputs ==
    LET good == OnePersonFound(<<9, 10>>)
    IN  {[good EXCEPT !.persons_detected = v] : v \in FieldValues}
        \cup {[good EXCEPT !.avg_confidence = v] : v \in FieldValues}
        \cup {[good EXCEPT !.max_confidence = v] : v \in FieldValues}
        \cup {[good EXCEPT !.min_confidence = v] : v \in FieldValues}
        \cup {[good EXCEPT !.uncertain = v] : v \in FieldValues}
        \cup {[good EXCEPT !.serializable = FALSE],
              [good EXCEPT !.kind = "empty"], [good EXCEPT !.kind = "None"]}

\* the arguments of insert_result that the coercion layer touches
ResultData(model_output, processing_time, success) ==
    [model_output |-> model_output, processing_time |-> processing_time,
     success |-> success]

Arguments ==
    {ResultData(d, PyFloat(<<1, 2>>), PyBool(TRUE)) :
        d \in DetectorOutputs \cup MalformedOutputs}
    \cup {ResultData(OnePersonFound(<<9, 10>>), t, PyBool(TRUE)) : t \in Values}
    \cup {ResultData(OnePersonFound(<<9, 10>>), PyFloat(<<1, 2>>), s) :
             s \in Values}

\* `x or default`: None, 0 and 0.0 give the default
OrDefault(v, default) ==
    IF v.type = "NoneType" \/ v.num = <<0, 1>> THEN default ELSE v

\* the columns of detection_results that the coercion layer fills
Params(data) ==
    LET d == data.model_output
        isdict == d.kind = "dict"
    IN  [persons_detected |->
            IF isdict
            THEN safe_convert_to_int_nullable(
                     Get(d.persons_detected, PyInt(0)))
            ELSE Returns(PyInt(0)),
         avg_confidence |->
            IF isdict
            THEN safe_convert_to_float(Get(d.avg_confidence, PyNone))
            ELSE Returns(PyNone),
         max_confidence |->
            IF isdict
            THEN safe_convert_to_float(Get(d.max_confidence, PyNone))
            ELSE Returns(PyNone),
         min_confidence |->
            IF isdict
            THEN safe_convert_to_float(Get(d.min_confidence, PyNone))
            ELSE Returns(PyNone),
         is_uncertain |->
            IF isdict
            THEN safe_convert_to_int(Get(d.uncertain, PyBool(FALSE)))
            ELSE Returns(PyInt(0)),
         success |-> safe_convert_to_int(data.success),
         processing_time |-> safe_convert_to_float(data.processing_time)]

Columns ==
    {"persons_detected", "avg_confidence", "max_confidence", "min_confidence",
     "is_uncertain", "success", "processing_time"}

\* the row of lines 246-261 once every coercer has returned
Row(params) ==
    [persons_detected |->
        OrDefault(params.persons_detected.value, PyInt(0)),
     avg_confidence |-> params.avg_confidence.value,
     max_confidence |-> params.max_confidence.value,
     min_confidence |-> params.min_confidence.value,
     is_uncertain |-> params.is_uncertain.value,
     success |-> params.success.value,
     processing_time |->
        OrDefault(params.processing_time.value, PyFloat(<<0, 1>>))]

\* what one insert_result call did: its return value, why, and the rows it
\* added to detection_results
Inserted(returned, why, rows) ==
    [returned |-> returned, why |-> why, rows |-> rows]

\* DatabaseHandler.insert_result: False without a connection; every
\* exception of the try block (the TypeError of json.dumps, whatever a
\* coercer lets through, the Error of cursor.execute) ends in return False
insert_result(data, connected, executes) ==
    IF ~connected
    THEN Inserted(FALSE, "no_connection", << >>)
    ELSE IF data.model_output.kind = "dict" /\ ~data.model_output.serializable
    THEN Inserted(FALSE, "TypeError", << >>)
    ELSE IF \E c \in Columns : Params(data)[c].raised # "none"
    THEN Inserted(FALSE,
                  Params(data)[CHOOSE c \in Columns :
                                  Params(data)[c].raised # "none"].raised,
                  << >>)
    ELSE IF ~executes
    THEN Inserted(FALSE, "Error", << >>)
    ELSE Inserted(TRUE, "none", <<Row(Params(data))>>)

\* src/DatabaseHandler.py lines 187-295
InsertResult ==
    /\ result_data # << >>
    /\ inserted = << >>
    /\ \E connected \in BOOLEAN, executes \in BOOLEAN :
          inserted' = <<insert_result(result_data[1], connected, executes)>>
    /\ UNCHANGED <<online, batchVars, csvFiles, coercerVars, result_data, exporterVars,
                   loaderVars>>

InitInsert ==
    /\ max_images = << >>
    /\ Fresh
    /\ result_data \in {<<a>> : a \in Arguments}
    /\ inserted = << >>
    /\ NoCoercion /\ NoExport /\ NoDiscovery /\ NoBatch

NextInsert == InsertResult

SpecInsert == InitInsert /\ [][NextInsert]_vars

(* ------------------------------------------------------------------ *)
(* The CSVExporter: the two files of one run                            *)
(* ------------------------------------------------------------------ *)

\* largest number of write_result calls of one run
MaxWrites == 3

\* largest number of write_run_info calls of one run
MaxRunWrites == 2

\* A file is the sequence of its lines; << >> is a file that is not there
\* or is empty.  A line is the header or a row; a row of the results file
\* carries its image and its success column, the row of the run file its
\* status.
Header == [kind |-> "header", image |-> 0, data |-> "header"]
ResultLine(image, success) == [kind |-> "row", image |-> image, data |-> success]
RunLine(st) == [kind |-> "row", image |-> 0, data |-> st]

\* how a call on the exporter can end: it wrote, _prepare_*_row raised,
\* open raised, or the write after a successful open raised
WriteOutcomes == {"ok", "prepare", "open", "write"}

\* one call as the history keeps it
CsvCall(op, image, data, outcome) ==
    [op |-> op, image |-> image, data |-> data, outcome |-> outcome]

\* the history of one exporter: how create_run_csv ended ("" before it),
\* and the calls of each of the two write methods in call order
NoCalls == [create_run_csv |-> "", write_result |-> << >>, write_run_info |-> << >>]

CallsOf(op) == csvCalls[op]

\* create_run_csv has returned the two paths
Created == csvCalls.create_run_csv = "ok"

\* open(path, 'a') followed by writerow
Appended(file, row) == Append(file, row)

\* open(path, 'w') followed by writeheader and writerow
RunInfoAppended(file, row) == file \o <<Header, row>>
RunInfoWritten(file, row) == <<Header, row>>

\* src/CSVExporter.py lines 39-74: both files are opened with 'w' and get
\* their header; an exception of open leaves the method
create_run_csv ==
    /\ csvCalls.create_run_csv = ""
    /\ \E outcome \in {"ok", "open_run_info", "open_results"} :
          /\ csvCalls' = [csvCalls EXCEPT !.create_run_csv = outcome]
          /\ run_csv' = IF outcome = "open_run_info" THEN run_csv ELSE <<Header>>
          /\ results_csv' = IF outcome = "ok" THEN <<Header>> ELSE results_csv
    /\ UNCHANGED <<online, batchVars, coercerVars, insertVars, loaderVars>>

\* src/CSVExporter.py lines 76-94: one call per processed image, in order
write_result ==
    /\ Created
    /\ Len(CallsOf("write_result")) < MaxWrites
    /\ \E outcome \in WriteOutcomes \ {"write"}, success \in {"true", "false"} :
          LET image == Len(CallsOf("write_result")) + 1
          IN  /\ csvCalls' =
                    [csvCalls EXCEPT !.write_result =
                        Append(@, CsvCall("write_result", image, success,
                                          outcome))]
              /\ results_csv' =
                    IF outcome = "ok"
                    THEN Appended(results_csv, ResultLine(image, success))
                    ELSE results_csv
    /\ UNCHANGED <<online, batchVars, coercerVars, insertVars, loaderVars, run_csv>>

\* src/CSVExporter.py lines 96-115: the file is truncated by open, so a
\* write that fails after it leaves the file empty
write_run_info ==
    /\ Created
    /\ Len(CallsOf("write_run_info")) < MaxRunWrites
    /\ \E outcome \in WriteOutcomes, st \in {"running", "completed"} :
          /\ csvCalls' =
                [csvCalls EXCEPT !.write_run_info =
                    Append(@, CsvCall("write_run_info", 0, st, outcome))]
          /\ run_csv' =
                IF outcome = "ok"
                THEN RunInfoWritten(run_csv, RunLine(st))
                ELSE IF outcome = "write"
                THEN << >>
                ELSE run_csv
    /\ UNCHANGED <<online, batchVars, coercerVars, insertVars, loaderVars, results_csv>>

InitCsv ==
    /\ max_images = << >>
    /\ Fresh
    /\ run_csv = << >>
    /\ csvCalls = NoCalls
    /\ NoCoercion /\ NoInsert /\ NoDiscovery /\ NoBatch

NextCsv ==
    \/ create_run_csv
    \/ write_result
    \/ write_run_info

SpecCsv == InitCsv /\ [][NextCsv]_vars

(* ------------------------------------------------------------------ *)
(* The DataLoader: labels                                               *)
(* ------------------------------------------------------------------ *)

\* longest name drawn from NameAlphabet
MaxNameLen == 3

\* the length _normalize_classification cuts a label to
MaxLabelLength == 50

\* the characters of the names handed to _normalize_classification: a
\* letter in each case, the underscore, a space, a tab, one character of
\* each kind of replacement, and one that is neither alphanumeric nor
\* replaced
NameAlphabet == {"a", "B", "_", " ", "\t", "-", "(", "&", "!"}

\* every sequence over the alphabet of length n
Words(n) == [1 .. n -> NameAlphabet]

\* n times the character c
RECURSIVE Repeat(_, _)
Repeat(c, n) == IF n = 0 THEN << >> ELSE <<c>> \o Repeat(c, n - 1)

\* the names: every word up to MaxNameLen, and each word of up to two
\* characters behind MaxLabelLength - 1 equal characters, so that the cut
\* at MaxLabelLength falls inside it
ShortNames == UNION {Words(n) : n \in 0 .. MaxNameLen}
LongNames ==
    {Repeat(c, MaxLabelLength - 1) \o w :
        c \in {"a", "!"}, w \in UNION {Words(n) : n \in 1 .. 2}}
Names == ShortNames \cup LongNames

\* lines 212-227: what str.replace puts for each character
Replacement(c) ==
    IF c \in {" ", "-", "."}
    THEN <<"_">>
    ELSE IF c \in {"(", ")", "[", "]", "{", "}"}
    THEN << >>
    ELSE IF c = "&"
    THEN <<"a", "n", "d">>
    ELSE IF c = "+"
    THEN <<"p", "l", "u", "s">>
    ELSE <<c>>
RECURSIVE Replaced(_)
Replaced(s) ==
    IF s = << >> THEN << >> ELSE Replacement(Head(s)) \o Replaced(Tail(s))

\* s.replace('__', '_'): pairs are replaced from the left, without overlap
RECURSIVE ReplacePairs(_)
ReplacePairs(s) ==
    IF Len(s) >= 2 /\ s[1] = "_" /\ s[2] = "_"
    THEN <<"_">> \o ReplacePairs(SubSeq(s, 3, Len(s)))
    ELSE IF s = << >>
    THEN << >>
    ELSE <<Head(s)>> \o ReplacePairs(Tail(s))
HasPair(s) == \E k \in 1 .. Len(s) - 1 : s[k] = "_" /\ s[k + 1] = "_"
\* lines 230-231: while '__' in normalized
RECURSIVE Collapsed(_)
Collapsed(s) == IF HasPair(s) THEN Collapsed(ReplacePairs(s)) ELSE s

\* str.isalnum() of one character
IsAlnum(c) ==
    \/ IsDigit(c)
    \/ \E k \in 1 .. Len(LowerCase) : LowerCase[k] = c \/ UpperCase[k] = c

Unclassified == <<"u", "n", "c", "l", "a", "s", "s", "i", "f", "i", "e", "d">>

\* lines 237-238: empty, or nothing alphanumeric in it
OrUnclassified(s) ==
    IF s = << >> \/ ~ \E k \in 1 .. Len(s) : IsAlnum(s[k])
    THEN Unclassified
    ELSE s

\* lines 241-242
Cut(s) ==
    IF Len(s) > MaxLabelLength
    THEN RStrip(SubSeq(s, 1, MaxLabelLength), {"_"})
    ELSE s

\* DataLoader._normalize_classification
normalize_classification(classification) ==
    Cut(OrUnclassified(StripChars(Collapsed(Replaced(Strip(Lower(classification)))),
                                  {"_"})))

\* src/DataLoader.py lines 198-244, applied to its own result as well
Normalize ==
    /\ normalizations # << >>
    /\ Len(normalizations) < 3
    /\ normalizations' =
          Append(normalizations,
                 normalize_classification(normalizations[Len(normalizations)]))
    /\ UNCHANGED <<online, batchVars, csvFiles, coercerVars, insertVars, exporterVars,
                   tree, loaded>>

InitNormalize ==
    /\ max_images = << >>
    /\ Fresh
    /\ normalizations \in {<<x>> : x \in Names}
    /\ tree = << >>
    /\ loaded = << >>
    /\ NoCoercion /\ NoInsert /\ NoExport /\ NoBatch

NextNormalize == Normalize

SpecNormalize == InitNormalize /\ [][NextNormalize]_vars

(* ------------------------------------------------------------------ *)
(* The DataLoader: discovery                                            *)
(* ------------------------------------------------------------------ *)

\* largest number of directories between data_dir and a file
MaxDirs == 3

\* largest number of entries of a tree with several entries
MaxFiles == 2

\* An entry of the tree is a path relative to data_dir: its directories,
\* the suffix of its last part, and whether it is a file.
Entry(dirs, suffix, is_file) ==
    [dirs |-> dirs, suffix |-> suffix, is_file |-> is_file]

supported_formats ==
    {<<".", "j", "p", "g">>, <<".", "j", "p", "e", "g">>,
     <<".", "p", "n", "g">>, <<".", "b", "m", "p">>,
     <<".", "t", "i", "f", "f">>, <<".", "t", "i", "f">>,
     <<".", "w", "e", "b", "p">>}

GenericNames ==
    {<<"d", "a", "t", "a">>, <<"i", "m", "a", "g", "e", "s">>,
     <<"p", "i", "c", "s">>, <<"p", "i", "c", "t", "u", "r", "e", "s">>,
     <<"p", "h", "o", "t", "o", "s">>, <<"f", "i", "l", "e", "s">>,
     <<"d", "a", "t", "a", "s", "e", "t">>,
     <<"t", "r", "a", "i", "n", "i", "n", "g">>, <<"t", "e", "s", "t">>,
     <<"v", "a", "l", "i", "d", "a", "t", "i", "o", "n">>,
     <<"s", "a", "m", "p", "l", "e", "s">>, <<"i", "n", "p", "u", "t">>,
     <<"o", "u", "t", "p", "u", "t">>, <<"r", "a", "w">>,
     <<"p", "r", "o", "c", "e", "s", "s", "e", "d">>,
     <<"t", "e", "m", "p">>, <<"t", "m", "p">>,
     <<"a", "r", "c", "h", "i", "v", "e">>,
     <<"b", "a", "c", "k", "u", "p">>, <<"e", "x", "p", "o", "r", "t">>,
     <<"i", "m", "p", "o", "r", "t">>,
     <<"u", "p", "l", "o", "a", "d", "s">>, <<"y", "e", "a", "r">>,
     <<"m", "o", "n", "t", "h">>, <<"d", "a", "y">>,
     <<"b", "a", "t", "c", "h">>, <<"s", "e", "t">>,
     <<"g", "r", "o", "u", "p">>}

\* the directory names of the trees that hold one image
DirNames ==
    {<<"C", "a", "r", "s">>, <<"r", "e", "d">>,
     <<"d", "a", "t", "a", "s", "e", "t">>, <<"2", "0", "2", "3">>,
     <<"1", "2", "3">>, <<"c", "a", "t", "s">>, <<"t", "r", "a", "i", "n">>}

Jpg == <<".", "j", "p", "g">>

\* every image below at most MaxDirs directories
DirPaths == UNION {[1 .. n -> DirNames] : n \in 0 .. MaxDirs}
Images == {Entry(dirs, Jpg, TRUE) : dirs \in DirPaths}

\* entries of other kinds: an image in data_dir itself, an upper-case
\* suffix, a file that is no image, a directory named like an image, a
\* two-digit parent and a parent that contains a generic name
Gallery ==
    {Entry(<< >>, Jpg, TRUE),
     Entry(<<<<"c", "a", "t", "s">>>>, <<".", "J", "P", "G">>, TRUE),
     Entry(<<<<"c", "a", "t", "s">>>>, <<".", "t", "x", "t">>, TRUE),
     Entry(<<<<"r", "e", "d", ".", "j", "p", "g">>>>, Jpg, FALSE),
     Entry(<<<<"2", "3">>, <<"d", "o", "g", "s">>>>, <<".", "p", "n", "g">>, TRUE),
     Entry(<<<<"t", "e", "s", "t", "s", "e", "t">>, <<"o", "w", "l", "s">>>>, Jpg, TRUE)}

\* the trees: one image, or up to MaxFiles different entries of the
\* gallery in the order rglob yields them; a data_dir that does not exist
\* is the tree without entries
Injective(f) == \A a, b \in DOMAIN f : f[a] = f[b] => a = b
Trees ==
    {<<e>> : e \in Images}
    \cup UNION {{t \in [1 .. n -> Gallery] : Injective(t)} : n \in 0 .. MaxFiles}

\* the classification filters: None, the empty list, and two lists
Filters ==
    {<< >>, <<{}>>, <<{<<"c", "a", "t", "s">>}>>, <<{<<"r", "o", "o", "t", "_", "l", "e", "v", "e", "l">>, <<"2", "3", "_", "d", "o", "g", "s">>}>>}

\* len(relative_path.parts): the directories and the file name
DepthOfDirectory(entry) == Len(entry.dirs)
Depth(entry) == Len(entry.dirs) + 1

\* True when sub occurs in s
Contains(s, sub) ==
    \E k \in 0 .. Len(s) - Len(sub) : SubSeq(s, k + 1, k + Len(sub)) = sub

\* DataLoader._is_generic_folder_name
is_generic_folder_name(folder_name) ==
    LET folder_lower == Lower(folder_name)
    IN  \/ folder_lower \in GenericNames
        \/ /\ folder_lower # << >>
           /\ AllDigits(folder_lower)
           /\ Len(folder_lower) = 4 \/ Len(folder_lower) = 2
        \/ \E generic \in GenericNames : Contains(folder_lower, generic)

\* DataLoader._extract_classification_from_path; relative_to cannot fail
\* for a path that rglob found below data_dir, so "unknown" is not returned
extract_classification_from_path(img_path) ==
    LET path_parts == img_path.dirs
        deepest_folder == path_parts[Len(path_parts)]
        parent_folder == path_parts[Len(path_parts) - 1]
    IN  IF path_parts = << >>
        THEN <<"r", "o", "o", "t", "_", "l", "e", "v", "e", "l">>
        ELSE IF Len(path_parts) = 1
        THEN normalize_classification(path_parts[1])
        ELSE IF is_generic_folder_name(parent_folder)
        THEN normalize_classification(parent_folder \o <<"_">> \o deepest_folder)
        ELSE normalize_classification(deepest_folder)

\* DataLoader._find_images_recursive: the entries up to the one at which
\* the walk raised (0: it did not), not deeper than max_depth, that are
\* files with a supported suffix
find_images_recursive(directory, max_depth, ioErrorAt) ==
    SelectSeq(IF ioErrorAt = 0 THEN directory
              ELSE SubSeq(directory, 1, ioErrorAt - 1),
              LAMBDA img_file :
                 /\ Depth(img_file) <= max_depth
                 /\ img_file.is_file
                 /\ Lower(img_file.suffix) \in supported_formats)

\* the pair appended at line 56
Classified(img_file) ==
    [path |-> img_file,
     classification |-> extract_classification_from_path(img_file)]

\* every image appended, whatever the filter
KeptUnfiltered(pair, classifications) == TRUE
\* lines 52-53: an empty list filters nothing
Kept(pair, classifications) ==
    \/ classifications = << >>
    \/ classifications[1] = {}
    \/ pair.classification \in classifications[1]

\* the list before the shuffle
RECURSIVE ClassifiedImages(_, _)
ClassifiedImages(found, classifications) ==
    IF found = << >>
    THEN << >>
    ELSE (IF Kept(Classified(Head(found)), classifications)
          THEN <<Classified(Head(found))>>
          ELSE << >>) \o ClassifiedImages(Tail(found), classifications)

\* as many entries drawn from s, each position by itself
Resampled(s) == {[k \in 1 .. Len(s) |-> s[q[k]]] : q \in [1 .. Len(s) -> 1 .. Len(s)]}
\* random.shuffle: any order of the same entries
Shuffles(s) ==
    {[k \in 1 .. Len(s) |-> s[p[k]]] :
        p \in {q \in [1 .. Len(s) -> 1 .. Len(s)] : Injective(q)}}

\* what one call got and gave
Loaded(randomize, classifications, max_depth, ioErrorAt, pairs) ==
    [randomize |-> randomize, classifications |-> classifications,
     max_depth |-> max_depth, ioErrorAt |-> ioErrorAt, images |-> pairs]

\* src/DataLoader.py lines 23-84
get_classified_images ==
    /\ tree \in Trees
    /\ normalizations = << >>
    /\ loaded = << >>
    /\ \E randomize \in BOOLEAN, classifications \in Filters,
          max_depth \in 0 .. MaxDirs + 2, ioErrorAt \in 0 .. Len(tree) :
          LET pairs ==
                 ClassifiedImages(
                    find_images_recursive(tree, max_depth, ioErrorAt),
                    classifications)
          IN  \E shuffled \in (IF randomize THEN Shuffles(pairs) ELSE {pairs}) :
                 loaded' = <<Loaded(randomize, classifications, max_depth,
                                    ioErrorAt, shuffled)>>
    /\ UNCHANGED <<online, batchVars, csvFiles, coercerVars, insertVars, exporterVars,
                   tree, normalizations>>

InitLoader ==
    /\ max_images = << >>
    /\ Fresh
    /\ tree \in Trees
    /\ loaded = << >>
    /\ normalizations = << >>
    /\ NoCoercion /\ NoInsert /\ NoExport /\ NoBatch

NextLoader == get_classified_images

SpecLoader == InitLoader /\ [][NextLoader]_vars

(* ------------------------------------------------------------------ *)
(* The batch scripts: the main loop                                     *)
(* ------------------------------------------------------------------ *)

\* largest number of rows of table Images
MaxBatchImages == 3

\* the LIMIT of one selection (the environment variable BATCH_SIZE)
BATCH_SIZE == 2

\* What goes wrong whenever an image is processed; the file and the
\* answer of the model belong to the image, so it goes wrong each time:
\*   none      nothing
\*   load      load_image_bytes raises
\*   infer     the inference raises
\*   parse     json.loads of the answer raises
\*   insert    the INSERT into AI_Results raises
\*   analysis  the INSERT into Analysis raises, AI_Results being committed
Faults == {"none", "load", "infer", "parse", "insert", "analysis"}

\* the component insert_error is handed for the fault
Component(fault) == IF fault = "load" THEN "Loader" ELSE "AI"

\* the faults that leave a committed row in AI_Results behind
LeavesResult(fault) == fault \in {"none", "analysis"}

\* the image_ids of table Images without a row in AI_Results for the
\* model, ordered by timestamp
WithoutResult ==
    SelectSeq(Iota(Len(image_faults)), LAMBDA image_id : image_id \notin AI_Results)

\* list_images_without_result: the first `limit` of them
list_images_without_result(limit) ==
    SubSeq(WithoutResult, 1,
           IF limit < Len(WithoutResult) THEN limit ELSE Len(WithoutResult))

\* everything but the state of the batch script
notBatch == <<pc, max_images, locals, tables, monitorHist, hist, cancelHist,
              setupFailed, monitorObject, monitorGhost, detectorVars, csvFiles,
              coercerVars, insertVars, exporterVars, loaderVars>>

\* zold_run_folder_gemma3.py lines 337-340 (run_folder_ulralytics.py lines
\* 387-390): one turn of `while True`, up to the for statement
SelectBatch ==
    /\ main = "select"
    /\ todo' = list_images_without_result(BATCH_SIZE)
    /\ main' = IF todo' = << >> THEN "done" ELSE "process"
    /\ UNCHANGED <<notBatch, image_faults, AI_Results, Errors, total_ok>>

\* zold_run_folder_gemma3.py lines 342-370 (run_folder_ulralytics.py lines
\* 392-411): the body of the for statement for the next image of the
\* batch.  A failure is written to table Errors and the loop goes on;
\* insert_error itself raising leaves main.
ProcessImage ==
    /\ main = "process"
    /\ LET image_id == Head(todo)
           fault == image_faults[image_id]
       IN  /\ AI_Results' =
                 IF LeavesResult(fault) THEN AI_Results \cup {image_id}
                                        ELSE AI_Results
           /\ total_ok' = IF fault = "none" THEN total_ok + 1 ELSE total_ok
           /\ \E insert_error_raises \in BOOLEAN :
                 IF fault = "none"
                 THEN /\ Errors' = Errors
                      /\ main' = IF Tail(todo) = << >> THEN "select" ELSE "process"
                 ELSE IF insert_error_raises
                 THEN /\ Errors' = Errors
                      /\ main' = "raised"
                 ELSE /\ Errors' = Errors \cup {<<Component(fault), image_id>>}
                      /\ main' = IF Tail(todo) = << >> THEN "select" ELSE "process"
    /\ todo' = Tail(todo)
    /\ UNCHANGED <<notBatch, image_faults>>

\* the state when main reaches its while statement: the images of the
\* folder are in table Images, none has a result
InitBatch ==
    /\ max_images = << >>
    /\ Fresh
    /\ NoCoercion /\ NoInsert /\ NoExport /\ NoDiscovery
    /\ image_faults \in UNION {[1 .. n -> Faults] : n \in 0 .. MaxBatchImages}
    /\ AI_Results = {}
    /\ Errors = {}
    /\ todo = << >>
    /\ total_ok = 0
    /\ main = "select"

NextBatch ==
    \/ SelectBatch
    \/ ProcessImage

SpecBatch == InitBatch /\ [][NextBatch]_vars

\* main is a running program: it takes its next step whenever it has one
SpecBatchFair == SpecBatch /\ WF_vars(NextBatch)

(* ------------------------------------------------------------------ *)
(* Vocabulary of the properties                                         *)
(* ------------------------------------------------------------------ *)

Last(s) == s[Len(s)]

\* process_images has returned, or has raised
Ended == pc \in {"returned", "raised"}

\* the run went through its whole image list undisturbed: no
\* KeyboardInterrupt, and no Exception outside the per-image boundary
Undisturbed ==
    /\ pc = "returned"
    /\ images # << >>
    /\ cancelAt = "none"
    /\ escaped = "none"

\* the positions of the detect calls that raised
Raising == {k \in 1 .. Len(outcomes) : outcomes[k] = "raise"}

\* the insert_result calls made for image img
CallsFor(img) == {c \in 1 .. Len(insertCalls) : insertCalls[c].image = img}

\* the rows of detection_results that belong to image img
RowsFor(img) == {r \in 1 .. Len(detection_results) : detection_results[r].image = img}

\* the KeyboardInterrupt arrived between two items: in the pause of line
\* 159 or at the for statement, with further images still to come
CancelledBetweenItems ==
    /\ cancelAt \in {"sleep", "loop"}
    /\ i < Len(images)

(* ------------------------------------------------------------------ *)
(* C1                                                                   *)
(* ------------------------------------------------------------------ *)

\* C1: whatever subset of the images makes detect raise, the loop invokes
\* detect on every image in list order, every raising image is counted as
\* failed and insert_result is called for it with success = 0 and the
\* exception message (the row is persisted when the database accepts it),
\* and the status handed to update_run_completion is 'completed'.  When the
\* other images return well-formed outcomes and the database accepts every
\* write, the counters are exactly the two subset sizes and one row per image
\* is persisted.
C1_DetectorExceptionsAbsorbed ==
    Undisturbed =>
       /\ detectCalls = images
       /\ Len(outcomes) = Len(images)
       /\ failed_detections >= Cardinality(Raising)
       /\ \A k \in Raising :
             \E c \in CallsFor(images[k]) :
                /\ insertCalls[c].success = 0
                /\ insertCalls[c].error_message = "detector_exception"
                /\ insertCalls[c].written =>
                      ResultRow(images[k], 0, "detector_exception")
                         \in {detection_results[r] : r \in RowsFor(images[k])}
       /\ status = "completed"
       /\ Last(completionCalls).status = "completed"
       /\ ((\A k \in 1 .. Len(outcomes) : outcomes[k] \in {"ok", "raise"})
              /\ ~storeFailed)
          => /\ failed_detections = Cardinality(Raising)
             /\ successful_detections = Len(images) - Cardinality(Raising)
             /\ Len(detection_results) = Len(images)
             /\ \A k \in 1 .. Len(images) :
                   detection_results[k].image = images[k]

\* three images, the second one raising: successful = 2, failed = 1, three
\* rows persisted, the run row updated to 'completed'
C1_Witness ==
    /\ Undisturbed
    /\ Len(images) = 3
    /\ outcomes = <<"ok", "raise", "ok">>
    /\ successful_detections = 2
    /\ failed_detections = 1
    /\ Len(detection_results) = 3
    /\ detection_results[2] = ResultRow(2, 0, "detector_exception")
    /\ ai_runs = <<CompletedRunRow(3, 2, 1, "completed")>>

(* ------------------------------------------------------------------ *)
(* C2                                                                   *)
(* ------------------------------------------------------------------ *)

\* C2: the successful_detections and failed_detections handed to
\* update_run_completion sum to the total_images handed to it.  Stated here
\* for the runs that end 'completed' without any database error, which the
\* claim covers.
C2_CountsSumToTotal ==
    \A k \in 1 .. Len(completionCalls) :
       (completionCalls[k].status = "completed" /\ ~storeFailed) =>
          completionCalls[k].successful_detections
             + completionCalls[k].failed_detections
          = completionCalls[k].total_images

(* ------------------------------------------------------------------ *)
(* C3                                                                   *)
(* ------------------------------------------------------------------ *)

\* C3: once the Run record has been inserted, process_images never returns
\* or raises without having stopped the monitor and called
\* update_run_completion with a terminal status.
C3_FinalisationUnconditional ==
    (Ended /\ ai_runs # << >>) =>
       /\ stopCalls >= 1
       /\ completionCalls # << >>
       /\ Last(completionCalls).status \in {"completed", "failed", "cancelled"}

(* ------------------------------------------------------------------ *)
(* C4                                                                   *)
(* ------------------------------------------------------------------ *)

\* C4: every run whose Run record was inserted writes that record exactly
\* twice, the INSERT of insert_run and one UPDATE of update_run_completion
\* carrying a terminal status.
C4_RunWrittenTwice ==
    (Ended /\ ai_runs # << >>) =>
       /\ runWrites = 2
       /\ Len(completionCalls) = 1
       /\ Last(completionCalls).status \in {"completed", "failed", "cancelled"}

(* ------------------------------------------------------------------ *)
(* C5                                                                   *)
(* ------------------------------------------------------------------ *)

\* C5: when the KeyboardInterrupt arrives between two items, after k of the
\* n images (k < n), and the database accepted every write, the run ends
\* 'cancelled' with exactly k rows persisted, detect invoked on the first k
\* images only, and stop_monitoring called exactly once.
C5_CancelBetweenItems ==
    (pc = "returned" /\ CancelledBetweenItems /\ ~storeFailed) =>
       /\ Last(completionCalls).status = "cancelled"
       /\ Len(detection_results) = i
       /\ detectCalls = SubSeq(images, 1, i)
       /\ stopCalls = 1

(* ------------------------------------------------------------------ *)
(* C6                                                                   *)
(* ------------------------------------------------------------------ *)

C7_EmptyListCompleted ==
    (pc = "returned" /\ images = << >>) =>
       /\ completionCalls # << >>
       /\ ai_runs = <<CompletedRunRow(0, 0, 0, "completed")>>

(* ------------------------------------------------------------------ *)
(* C8                                                                   *)
(* ------------------------------------------------------------------ *)

\* C8: an Exception raised outside the per-image boundary after the Run
\* record was created (by discovery, or inside the per-image handler) ends
\* the run with update_run_completion called with status 'failed'.
C8_FatalErrorFails ==
    (Ended /\ escaped # "none") =>
       /\ completionCalls # << >>
       /\ Last(completionCalls).status = "failed"

(* ------------------------------------------------------------------ *)
(* C9                                                                   *)
(* ------------------------------------------------------------------ *)

\* C9: whatever detect returned or raised, every image the loop has
\* processed has a row in detection_results (the database having accepted
\* every write it was handed).
C9_NoResultLost ==
    (Undisturbed /\ ~storeFailed) =>
       \A k \in 1 .. Len(images) : RowsFor(images[k]) # {}

(* ------------------------------------------------------------------ *)
(* C10                                                                  *)
(* ------------------------------------------------------------------ *)

\* C10: insert_result is called at most once per image, on the success path
\* or on the failure path but never on both, so that at most one row is
\* written per image, and exactly once for every image of a run that went
\* through its whole list.  Stated here for the runs without any database
\* error, which the claim covers.
C10_OneResultPerImage ==
    ~storeFailed =>
       /\ \A k \in 1 .. Len(images) :
             /\ Cardinality(CallsFor(images[k])) <= 1
             /\ Cardinality(RowsFor(images[k])) <= 1
       /\ Undisturbed =>
             \A k \in 1 .. Len(images) : Cardinality(CallsFor(images[k])) = 1

(* ------------------------------------------------------------------ *)
(* C11                                                                  *)
(* ------------------------------------------------------------------ *)

\* the positions of the detect calls that returned an outcome whose
\* 'error' field is populated
Reported == {k \in 1 .. Len(outcomes) : outcomes[k] = "reported_error"}

\* C11: an image whose detect call returned an outcome with 'error'
\* populated is recorded like one whose detect call raised: insert_result is
\* called for it with success = 0 and an error message, and it is counted
\* in failed_detections.
C11_ReportedErrorRecordedAsFailure ==
    (Undisturbed /\ ~storeFailed) =>
       /\ \A k \in Reported :
             \E c \in CallsFor(images[k]) :
                /\ insertCalls[c].success = 0
                /\ insertCalls[c].error_message # "NULL"
       /\ failed_detections >= Cardinality(Reported)

(* ------------------------------------------------------------------ *)
(* C12                                                                  *)
(* ------------------------------------------------------------------ *)

\* C12: no detect call of any detector implementation propagates an
\* exception, and a call in which something failed returns an outcome with
\* persons_detected = 0, uncertain = true and 'error' populated.
C12_DetectNeverPropagates ==
    \A k \in 1 .. Len(detections) :
       /\ ~detections[k].outcome.raised
       /\ detections[k].failure # "none" =>
             /\ detections[k].outcome.persons_detected = 0
             /\ detections[k].outcome.uncertain = "true"
             /\ detections[k].outcome.error # "absent"

(* ------------------------------------------------------------------ *)
(* C13                                                                  *)
(* ------------------------------------------------------------------ *)

\* C13: insert_result is only ever called, and a row of detection_results
\* only ever written, after insert_run wrote the Run row of the run; when
\* insert_run failed no insert_result call is made at all.
C13_ResultOnlyAfterRun ==
    /\ insertCalls # << >> => (ai_runs # << >> /\ setupFailed = "none")
    /\ detection_results # << >> => ai_runs # << >>
    /\ setupFailed = "insert_run" =>
          /\ insertCalls = << >>
          /\ detection_results = << >>
          /\ ai_runs = << >>

\* three results written under a Run row that was inserted first
C13_Witness ==
    /\ pc = "returned"
    /\ Len(insertCalls) = 3
    /\ Len(detection_results) = 3
    /\ ai_runs = <<CompletedRunRow(3, 3, 0, "completed")>>

(* ------------------------------------------------------------------ *)
(* C14                                                                  *)
(* ------------------------------------------------------------------ *)

\* C14: a run that went through its whole list without KeyboardInterrupt
\* and without an Exception leaving the per-image boundary hands status
\* 'completed' to update_run_completion, whatever detect did on each image
\* and whatever the database did with each result write.
C14_ItemFailuresKeepCompleted ==
    Undisturbed =>
       /\ status = "completed"
       /\ Len(completionCalls) = 1
       /\ completionCalls[1].status = "completed"
       /\ ai_runs[1].status \in {"completed", "running"}
       /\ ai_runs[1].status = "completed" => ai_runs = <<completionCalls[1]>>

\* three images: detect raises on the first, reports an error on the
\* second, and the database rejects every result write; no image succeeds
\* and the run is still 'completed'
C14_Witness ==
    /\ Undisturbed
    /\ outcomes = <<"raise", "reported_error", "ok">>
    /\ storeFailed
    /\ detection_results = << >>
    /\ successful_detections = 0
    /\ failed_detections = 3
    /\ ai_runs = <<CompletedRunRow(3, 0, 3, "completed")>>

(* ------------------------------------------------------------------ *)
(* C15                                                                  *)
(* ------------------------------------------------------------------ *)

\* the positions outside the try block of lines 100-166
OutsideTry == {"connect", "create_tables", "insert_run", "discover",
               "start_monitor", "stop_monitor", "finalize"}

C16_BothSinksWritten ==
    \A c \in 1 .. Len(insertCalls) :
       \E r \in 1 .. Len(results_csv) :
          results_csv[r].image = insertCalls[c].image

(* ------------------------------------------------------------------ *)
(* C17                                                                  *)
(* ------------------------------------------------------------------ *)

\* C17: on a monitor whose windows do not overlap (every start_monitoring
\* found the sampler of the window before terminated), stop_monitoring
\* returns only when the sampler has terminated, and no sample is appended
\* to any buffer between the return of stop_monitoring and the next
\* start_monitoring.
C17_NoSampleAfterStop ==
    ~overlap =>
       /\ ~appendedAfterStop
       /\ afterStop => (Live = {} /\ lock = 0)

\* two windows one after the other, two samples collected, both samplers
\* terminated when the second stop_monitoring has returned
C17_Witness ==
    /\ afterStop
    /\ ~overlap
    /\ startCalls = 2
    /\ stopCalls = 2
    /\ Len(cpu_usage) = 2
    /\ Len(gpu_usage) = 2
    /\ Live = {}

(* ------------------------------------------------------------------ *)
(* C18                                                                  *)
(* ------------------------------------------------------------------ *)

\* C18: after start, stop, start, stop on one monitor, with every sample
\* appended whole, the aggregates get_average_usage returns are computed
\* from the samples of the second window only, the buffers having been
\* cleared when that window opened.
C18_OnlyCurrentWindowAggregated ==
    \A k \in 1 .. Len(system_stats) :
       (/\ system_stats[k].afterStop
        /\ ~overlap
        /\ startCalls = 2
        /\ stopCalls = 2
        /\ Len(cpu_usage) = Len(gpu_usage)) =>
          system_stats[k].usage = system_stats[k].window

(* ------------------------------------------------------------------ *)
(* C19                                                                  *)
(* ------------------------------------------------------------------ *)

\* the number 0 as get_average_usage returns it for an average
Zero == <<0, 1>>

\* C19: get_average_usage returns 0 for the average and for the maximum of
\* every buffer that holds no sample; with no sample at all the six values
\* are 0.
C19_NoSamplesAllZero ==
    \A k \in 1 .. Len(system_stats) :
       LET r == system_stats[k] IN
       /\ r.samples[1] = 0 => (r.usage.avg_cpu = Zero /\ r.usage.max_cpu = 0)
       /\ r.samples[2] = 0 =>
             (r.usage.avg_memory = Zero /\ r.usage.max_memory = 0)
       /\ r.samples[3] = 0 => (r.usage.avg_gpu = Zero /\ r.usage.max_gpu = 0)

\* the monitor was started and stopped before the first sample, then read
C19_Witness ==
    /\ startCalls = 1
    /\ afterStop
    /\ system_stats # << >>
    /\ system_stats[1].samples = <<0, 0, 0>>
    /\ system_stats[1].usage = Usage(<< >>, << >>, << >>)
    /\ system_stats[1].usage.avg_cpu = Zero
    /\ system_stats[1].usage.max_gpu = 0

(* ------------------------------------------------------------------ *)
(* C20                                                                  *)
(* ------------------------------------------------------------------ *)

\* C20: whenever the lock is free the three buffers have the same length,
\* and every get_average_usage call saw three buffers of the same length.
C20_SamplesAppendedWhole ==
    /\ lock = 0 =>
          /\ Len(cpu_usage) = Len(memory_usage)
          /\ Len(memory_usage) = Len(gpu_usage)
    /\ \A k \in 1 .. Len(system_stats) :
          /\ system_stats[k].samples[1] = system_stats[k].samples[2]
          /\ system_stats[k].samples[2] = system_stats[k].samples[3]

(* ------------------------------------------------------------------ *)
(* C21 .. C26: the coercion layer                                       *)
(* ------------------------------------------------------------------ *)

\* what coercer c returned for the value, once it has been called
Coerced(c) == coerced[c].value

\* coercer c has been called and has returned
HasReturned(c) == coerced[c].raised = "none"

\* C21: the coercers of DatabaseHandler are total: for every input none of
\* them raises, _safe_convert_to_int returns the integer 0 or 1, and
\* _safe_convert_to_float and _safe_convert_to_int_nullable return a number
\* or None.
C21_CoercersTotal ==
    /\ \A c \in Coercers \ {"_safe_bool_string"} :
          coerced[c].raised \in {"not_called", "none"}
    /\ HasReturned("_safe_convert_to_int") =>
          Coerced("_safe_convert_to_int") \in {PyInt(0), PyInt(1)}
    /\ HasReturned("_safe_convert_to_float") =>
          Coerced("_safe_convert_to_float").type \in {"NoneType", "float"}
    /\ HasReturned("_safe_convert_to_int_nullable") =>
          Coerced("_safe_convert_to_int_nullable").type \in {"NoneType", "int"}

\* the boolean the claimed rule gives a string whose membership key is key
TokenBoolean(key, text) ==
    IF key \in TrueTokens
    THEN PyInt(1)
    ELSE IF key \in FalseTokens
    THEN PyInt(0)
    ELSE IF ParseFloat(text).ok /\ ParseFloat(text).num # <<0, 1>>
    THEN PyInt(1)
    ELSE PyInt(0)

\* the value is a string that does not parse to NaN (that case is C23's)
OrdinaryString == value.type = "str" /\ ParseFloat(value.text).num # NaN

\* C22, as stated: boolean coercion of a string is case-insensitive
\* membership in the two token sets, any other string being true iff it
\* parses to a non-zero number; None gives false, a boolean itself.
C22_StringCoercionByCase ==
    HasReturned("_safe_convert_to_int") =>
       /\ OrdinaryString =>
             Coerced("_safe_convert_to_int")
                = TokenBoolean(Lower(value.text), value.text)
       /\ value.type = "NoneType" => Coerced("_safe_convert_to_int") = PyInt(0)
       /\ value.type = "bool" =>
             Coerced("_safe_convert_to_int").num = value.num

\* C22, amended: the membership test is made on the string lower-cased and
\* stripped of surrounding whitespace (" true " is true); any other string
\* is true iff it parses to a non-zero number, false if it does not parse;
\* None gives false and a boolean gives itself.
C22_StringCoercionStripped ==
    HasReturned("_safe_convert_to_int") =>
       /\ OrdinaryString =>
             Coerced("_safe_convert_to_int")
                = TokenBoolean(Strip(Lower(value.text)), value.text)
       /\ value.type = "NoneType" => Coerced("_safe_convert_to_int") = PyInt(0)
       /\ value.type = "bool" =>
             Coerced("_safe_convert_to_int").num = value.num

\* " true " has been coerced, and to true
C22_Witness ==
    /\ value = PyStr(<<" ", "t", "r", "u", "e", " ">>)
    /\ HasReturned("_safe_convert_to_int")
    /\ Coerced("_safe_convert_to_int") = PyInt(1)

\* the number a numeric input denotes: itself, or what the string parses to
Denoted ==
    IF value.type = "str" THEN ParseFloat(value.text).num ELSE value.num

\* C23: boolean coercion of a numeric input (a number, or a string that
\* parses to one) is 0 for zero and for NaN, and 1 for every other number.
C23_NaNIsFalse ==
    (/\ HasReturned("_safe_convert_to_int")
     /\ \/ value.type \in {"int", "float"}
        \/ value.type = "str" /\ ParseFloat(value.text).ok)
    => Coerced("_safe_convert_to_int")
          = PyInt(IF Denoted \in {<<0, 1>>, NaN} THEN 0 ELSE 1)

\* C26: for every input the flat export's 'true'/'false' denotes the same
\* boolean as the 0/1 of the structured store.
C26_SinksAgree ==
    (HasReturned("_safe_bool_string") /\ HasReturned("_safe_convert_to_int"))
    => /\ Coerced("_safe_bool_string").text
             \in {<<"t", "r", "u", "e">>, <<"f", "a", "l", "s", "e">>}
       /\ Coerced("_safe_bool_string").text = <<"t", "r", "u", "e">>
             <=> Coerced("_safe_convert_to_int") = PyInt(1)

\* insert_result had a connection, a model_output that json.dumps accepts,
\* and an INSERT the server executed
Storable ==
    /\ inserted # << >>
    /\ inserted[1].why \notin {"no_connection", "TypeError", "Error"}

\* the field holds nothing float() makes a number of
NoFloat(v) ==
    \/ v = Absent
    \/ FloatOf(v).raised # "none"
    \/ FloatOf(v).value.num = NaN

\* the field holds nothing int() makes a number of
NoInt(v) == v = Absent \/ IntOf(v).raised # "none"

\* C24: a malformed or absent numeric field never aborts the write of
\* insert_result: the three confidences become NULL, persons_detected
\* becomes 0, processing_time becomes 0.0, and the row is inserted.
C24_MalformedFieldNeverAborts ==
    Storable =>
       /\ inserted[1].returned
       /\ Len(inserted[1].rows) = 1
       /\ LET d == result_data[1].model_output
              row == inserted[1].rows[1]
          IN  /\ NoFloat(result_data[1].processing_time) =>
                    row.processing_time = PyFloat(<<0, 1>>)
              /\ d.kind = "dict" =>
                    /\ NoInt(d.persons_detected) =>
                          row.persons_detected = PyInt(0)
                    /\ NoFloat(d.avg_confidence) => row.avg_confidence = PyNone
                    /\ NoFloat(d.max_confidence) => row.max_confidence = PyNone
                    /\ NoFloat(d.min_confidence) => row.min_confidence = PyNone

\* NULL, or a float in [0,1]
NullOrUnit(v) ==
    \/ v = PyNone
    \/ v.type = "float" /\ v.num[2] > 0 /\ 0 <= v.num[1] /\ v.num[1] <= v.num[2]

\* C25: every stored avg_, max_ and min_confidence is NULL or a number in
\* [0,1], and is NULL when the detector outcome has no confidence.
C25_ConfidenceNullOrUnit ==
    inserted # << >> =>
       \A r \in 1 .. Len(inserted[1].rows) :
          LET d == result_data[1].model_output
              row == inserted[1].rows[r]
          IN  /\ NullOrUnit(row.avg_confidence)
              /\ NullOrUnit(row.max_confidence)
              /\ NullOrUnit(row.min_confidence)
              /\ (d.kind = "dict" /\ d.confidences = 0) =>
                    /\ row.avg_confidence = PyNone
                    /\ row.max_confidence = PyNone
                    /\ row.min_confidence = PyNone

(* ------------------------------------------------------------------ *)
(* C27: the flat export                                                  *)
(* ------------------------------------------------------------------ *)

\* the rows the successful calls of op wrote, in call order
RECURSIVE RowsWritten(_)
RowsWritten(calls) ==
    IF calls = << >>
    THEN << >>
    ELSE IF Head(calls).outcome = "ok"
    THEN <<[kind |-> "row", image |-> Head(calls).image,
            data |-> Head(calls).data]>> \o RowsWritten(Tail(calls))
    ELSE RowsWritten(Tail(calls))

\* C27: after create_run_csv the results file is its header followed by one
\* row per successful write_result, in call order (so each such call
\* appended one row and left the lines before it alone); a write_run_info
\* that succeeded leaves the run file holding the header and its one row,
\* however many calls went before, and the run file never holds more.
C27_AppendOnlyAndSingleRow ==
    Created =>
       /\ results_csv = <<Header>> \o RowsWritten(CallsOf("write_result"))
       /\ Len(run_csv) <= 2
       /\ (/\ CallsOf("write_run_info") # << >>
           /\ Last(CallsOf("write_run_info")).outcome = "ok")
          => run_csv = <<Header, RunLine(Last(CallsOf("write_run_info")).data)>>

\* three write_result calls of which the second failed, and two
\* write_run_info calls that both wrote
C27_Witness ==
    /\ Created
    /\ Len(CallsOf("write_result")) = 3
    /\ CallsOf("write_result")[2].outcome # "ok"
    /\ Len(results_csv) = 3
    /\ Len(CallsOf("write_run_info")) = 2
    /\ \A k \in 1 .. 2 : CallsOf("write_run_info")[k].outcome = "ok"
    /\ run_csv = <<Header, RunLine("completed")>>

(* ------------------------------------------------------------------ *)
(* C28 .. C30: discovery and labels                                     *)
(* ------------------------------------------------------------------ *)

\* the call was given a classification filter that filters
Filtering ==
    /\ loaded[1].classifications # << >>
    /\ loaded[1].classifications[1] # {}

\* the entry is a file with a supported suffix
IsImage(e) == e.is_file /\ Lower(e.suffix) \in supported_formats

\* the call returned the entry
Returned(e) ==
    \E j \in 1 .. Len(loaded[1].images) : loaded[1].images[j].path = e

\* C28: discovery honours max_depth, counted in path segments relative to
\* the root (the file name is a segment): when the walk meets no I/O error
\* and nothing is filtered, an image is returned iff its depth is at most
\* max_depth, so one at depth max_depth is returned and one at depth
\* max_depth + 1 is not; the call returns in either case.
C28_MaxDepthHonoured ==
    (loaded # << >> /\ loaded[1].ioErrorAt = 0 /\ ~Filtering) =>
       \A k \in 1 .. Len(tree) :
          IsImage(tree[k]) =>
             (Returned(tree[k]) <=> Len(tree[k].dirs) + 1 <= loaded[1].max_depth)

\* one call met an image at depth max_depth, which it returned, and an
\* image at depth max_depth + 1, which it did not
C28_Witness ==
    /\ loaded # << >>
    /\ loaded[1].ioErrorAt = 0
    /\ ~Filtering
    /\ \E a, b \in 1 .. Len(tree) :
          /\ IsImage(tree[a]) /\ IsImage(tree[b])
          /\ Len(tree[a].dirs) + 1 = loaded[1].max_depth
          /\ Len(tree[b].dirs) + 1 = loaded[1].max_depth + 1
          /\ Returned(tree[a])
          /\ ~Returned(tree[b])

\* the names the claim calls generic
ClaimedGenericNames ==
    {<<"d", "a", "t", "a">>, <<"i", "m", "a", "g", "e", "s">>,
     <<"d", "a", "t", "a", "s", "e", "t">>, <<"t", "r", "a", "i", "n">>,
     <<"t", "e", "s", "t">>, <<"b", "a", "t", "c", "h">>}

ClaimedGeneric(name) ==
    \/ Lower(name) \in ClaimedGenericNames
    \/ name # << >> /\ AllDigits(name) /\ Len(name) \in {2, 4}
    \/ \E token \in ClaimedGenericNames : Contains(Lower(name), token)

\* the label the claim derives from the directories of a path
ClaimedClassification(dirs) ==
    IF dirs = << >>
    THEN <<"r", "o", "o", "t", "_", "l", "e", "v", "e", "l">>
    ELSE IF Len(dirs) = 1
    THEN normalize_classification(dirs[1])
    ELSE IF ClaimedGeneric(dirs[Len(dirs) - 1])
    THEN normalize_classification(dirs[Len(dirs) - 1] \o <<"_">> \o dirs[Len(dirs)])
    ELSE normalize_classification(dirs[Len(dirs)])

\* C29: the classification of an image is "root_level" without an
\* intermediate directory, the normalised directory name with one, and with
\* two or more normalise(parent_deepest) when the parent of the deepest
\* directory is generic (data, images, dataset, train, test, batch, a 2- or
\* 4-digit number, or a name containing one of these), else
\* normalise(deepest).
C29_ClassificationFromPath ==
    loaded # << >> =>
       \A j \in 1 .. Len(loaded[1].images) :
          loaded[1].images[j].classification
             = ClaimedClassification(loaded[1].images[j].path.dirs)

\* C30: normalisation is idempotent: normalising a normalised name gives
\* that name.
C30_NormalizeIdempotent ==
    Len(normalizations) = 3 => normalizations[3] = normalizations[2]

\* the label _normalize_classification returned for the name
Label == normalizations[2]

\* C31: every label _normalize_classification returns is non-empty, at
\* most 50 characters long, has no leading or trailing '_' and no repeated
\* '_', and contains at least one alphanumeric character, whatever the
\* length of the name.
C31_LabelWellFormed ==
    Len(normalizations) >= 2 =>
       /\ Label # << >>
       /\ Len(Label) <= MaxLabelLength
       /\ Label[1] # "_"
       /\ Label[Len(Label)] # "_"
       /\ ~HasPair(Label)
       /\ \E k \in 1 .. Len(Label) : IsAlnum(Label[k])

\* the walk of the call came to the entry at position k of the tree and
\* took it: no I/O error before it, not deeper than max_depth, an image
Discovered(k) ==
    /\ loaded[1].ioErrorAt = 0 \/ k < loaded[1].ioErrorAt
    /\ Len(tree[k].dirs) + 1 <= loaded[1].max_depth
    /\ IsImage(tree[k])

\* the returned pairs are exactly the discovered images whose derived
\* label is in the filter set
ExactlyTheFiltered ==
    /\ \A j \in 1 .. Len(loaded[1].images) :
          loaded[1].images[j].classification \in loaded[1].classifications[1]
    /\ \A k \in 1 .. Len(tree) :
          Discovered(k) =>
             (Returned(tree[k])
                <=> extract_classification_from_path(tree[k])
                       \in loaded[1].classifications[1])

\* C32 (the original statement): with a classification filter given,
\* get_classified_images returns exactly the discovered images whose
\* derived label is in the filter set.
C32_FilterGivenIsExact ==
    (loaded # << >> /\ loaded[1].classifications # << >>) => ExactlyTheFiltered

\* C32 (amended): with a non-empty classification filter,
\* get_classified_images returns exactly the discovered images whose
\* derived label is in the filter set: every returned pair has its label
\* in the filter, and no discovered image whose label is in the filter is
\* dropped.  An empty filter list, like no filter, keeps every discovered
\* image.
C32_NonEmptyFilterIsExact ==
    /\ (loaded # << >> /\ Filtering) => ExactlyTheFiltered
    /\ (loaded # << >> /\ ~Filtering) =>
          \A k \in 1 .. Len(tree) : Discovered(k) => Returned(tree[k])

\* a call with a filter found two images, returned the one whose label is
\* in the filter and dropped the other
C32_Witness ==
    /\ loaded # << >>
    /\ Filtering
    /\ \E a, b \in 1 .. Len(tree) :
          /\ Discovered(a) /\ Discovered(b)
          /\ Returned(tree[a])
          /\ ~Returned(tree[b])

\* the images the call discovered and kept, in the order rglob yielded them
DiscoveryOrder ==
    SelectSeq(tree,
              LAMBDA e :
                 /\ \E k \in 1 .. Len(tree) : tree[k] = e /\ Discovered(k)
                 /\ Kept(Classified(e), loaded[1].classifications))

\* the paths of the returned pairs, in the order returned
ReturnedPaths == [j \in 1 .. Len(loaded[1].images) |-> loaded[1].images[j].path]

\* s holds the entries of t, each as often as t does
IsPermutation(s, t) ==
    /\ Len(s) = Len(t)
    /\ \E q \in [1 .. Len(s) -> 1 .. Len(s)] :
          /\ Injective(q)
          /\ \A k \in 1 .. Len(s) : s[k] = t[q[k]]

\* C33: with randomize = false get_classified_images returns the images in
\* discovery order; with randomize = true it returns a permutation of that
\* same list, nothing added or lost; each path keeps its own label.
C33_OrderKeptOrPermuted ==
    loaded # << >> =>
       /\ ~loaded[1].randomize => ReturnedPaths = DiscoveryOrder
       /\ loaded[1].randomize => IsPermutation(ReturnedPaths, DiscoveryOrder)
       /\ \A j \in 1 .. Len(loaded[1].images) :
             loaded[1].images[j] = Classified(loaded[1].images[j].path)

\* a call with randomize = true returned its two images in the opposite
\* of the discovery order
C33_Witness ==
    /\ loaded # << >>
    /\ loaded[1].randomize
    /\ Len(DiscoveryOrder) = 2
    /\ ReturnedPaths = <<DiscoveryOrder[2], DiscoveryOrder[1]>>

\* the entry at position k of the tree is an image within the depth bound
\* that the filter of the call keeps
Wanted(k) ==
    /\ Len(tree[k].dirs) + 1 <= loaded[1].max_depth
    /\ IsImage(tree[k])
    /\ Kept(Classified(tree[k]), loaded[1].classifications)

\* C34: an I/O error while reading one subdirectory skips only that
\* subdirectory: every image in the other subdirectories, enumerated before
\* or after the failing one, is still returned, and the call returns.
C34_ErrorSkipsOneDirectory ==
    (/\ loaded # << >>
     /\ loaded[1].ioErrorAt # 0
     /\ tree[loaded[1].ioErrorAt].dirs # << >>) =>
       \A k \in 1 .. Len(tree) :
          (tree[k].dirs # tree[loaded[1].ioErrorAt].dirs /\ Wanted(k))
             => Returned(tree[k])

(* ------------------------------------------------------------------ *)
(* C35 .. C38: the order of the steps of a run                          *)
(* ------------------------------------------------------------------ *)

\* the images of the rows of detection_results, in the order persisted
PersistedImages ==
    [r \in 1 .. Len(detection_results) |-> detection_results[r].image]

\* C35: images are processed one at a time and in list order: detect is
\* invoked on the images in list order, one call after the other; the
\* DetectionResult of an image is written before detect is invoked on the
\* next one; and the persisted results of a run that went through its whole
\* list are in the order of the image list.  Stated for the runs without
\* any database error.
C35_OneAtATimeInListOrder ==
    ~storeFailed =>
       /\ detectCalls = SubSeq(images, 1, Len(detectCalls))
       /\ \A k \in 1 .. Len(detectCalls) - 1 : RowsFor(detectCalls[k]) # {}
       /\ Undisturbed => PersistedImages = images

\* the monitor was used as process_images uses it: start_monitoring,
\* stop_monitoring, then get_average_usage, one run after the other
ReadAsARunDoes(k) == system_stats[k].afterStop /\ ~overlap

\* C36: start_monitoring is called before the first detect, stop_monitoring
\* has returned before get_average_usage is read, and get_average_usage is
\* read before update_run_completion; hence the aggregates written to the
\* Run record are computed from the final, complete sample set of the
\* monitoring window of the run: every sample of that window whole, and no
\* other sample.
C36_AggregatesOfTheRunsWindow ==
    \A k \in 1 .. Len(system_stats) :
       ReadAsARunDoes(k) =>
          /\ Live = {}
          /\ system_stats[k].samples[1] = system_stats[k].samples[3]
          /\ system_stats[k].usage = system_stats[k].window

\* C37: for any sequence of start_monitoring and stop_monitoring calls on
\* one SystemMonitor, at most one sampling loop is running at any time, and
\* once a stop_monitoring call has returned no sampler started by an earlier
\* start_monitoring is still running.
C37_OneSamplerAtATime ==
    /\ Cardinality(Live) <= 1
    /\ afterStop => Live = {}

\* C38: with max_images = n for an integer n >= 0, detect is invoked at
\* most n times and on the first images of the discovered list, in its
\* order; with max_images = None the image list is the discovered list.
C38_AtMostMaxImages ==
    /\ max_images # << >> => Len(detectCalls) <= max_images[1]
    /\ detectCalls = Iota(Len(detectCalls))
    /\ images = Iota(Len(images))

(* ------------------------------------------------------------------ *)
(* C39: the batch scripts                                               *)
(* ------------------------------------------------------------------ *)

\* C39: the main loop of the batch scripts terminates for every finite
\* image table, also when loading an image, the inference, the parsing of
\* the answer or the result insert fails for some image.
C39_BatchLoopTerminates == <>(main \in {"done", "raised"})

====
